---------------------------- MODULE Spec2Model ----------------------------
(***************************************************************************)
(* A model of transformer_engine/pytorch/transformer.py: the attention     *)
(* dispatcher (DotProductAttention) with its two variants (FlashAttention, *)
(* UnfusedDotProductAttention) and the inference key/value cache of        *)
(* MultiHeadAttention.                                                     *)
(*                                                                         *)
(* Tensors are records [dtype, is_cuda, data]; data[i][c] is the element   *)
(* (the heads x head-dim vector) at sequence row i and batch column c.     *)
(* Elements are symbolic names.  An attention output element is the term   *)
(*   [query, norm_factor, attended]                                        *)
(* where attended is the set of <<key row, key element, value element>>    *)
(* the softmax ranges over: two outputs are equal when the same query is   *)
(* combined with the same keys and values under the same scaling.          *)
(* Dropout is taken as disabled (attention_dropout = 0).                   *)
(*                                                                         *)
(* In MultiHeadAttention and TransformerLayer the projections, the         *)
(* layernorms and the MLP map each position on its own, so a hidden        *)
(* element is named <<"x", token, column>>, its projections <<"key", x>>,  *)
(* <<"value", x>>, <<"query", x>>, and what comes after the attention is a *)
(* term over its operands: <<"add", a, b>>, <<"dropout", p, a>>,           *)
(* <<"div", a, keep_prob>>, <<"layernorm", owner, a>>.  Probabilities are  *)
(* counted in hundredths.  A constructor's outcome lists the sub-modules   *)
(* it has created, in order.  A forward that runs in stages is written     *)
(*   CHOOSE out \in {Rest(stage) : stage \in {First(...)}} : TRUE          *)
(* which is Rest(First(...)) with the outcome of the first stage computed  *)
(* once.                                                                   *)
(***************************************************************************)
EXTENDS Integers, Sequences, FiniteSets, TLC

\* Python's None, by the kind of value it stands in for: an error name or an
\* operation name, an optional number (<<n>> when given), an object, a mask.
None == "None"
NoNum == << >>
NoObj == [absent |-> TRUE]
NoMask == [dtype |-> "none"]

HalfDtypes == {"float16", "bfloat16"}
Dtypes == HalfDtypes \cup {"float32"}

\* transformer_engine.pytorch.constants.AttnMaskTypes
AttnMaskTypes == {"causal", "padding"}

Max2(a, b) == IF a >= b THEN a ELSE b

\* utils.divide(numerator, denominator): the quotient, asserted to be exact.
DivideOk(numerator, denominator) == numerator % denominator = 0
Divide(numerator, denominator) == numerator \div denominator

Rows(t) == Len(t.data)
Cols(t) == IF Len(t.data) = 0 THEN 0 ELSE Len(t.data[1])

Tensor(dt, cuda, d) == [dtype |-> dt, is_cuda |-> cuda, data |-> d]

\* The outcome of a forward call: an error name (None when it returned), whether
\* the flash-attn kernel ran, and the returned value (None when it raised).
Raised(e) == [err |-> e, kernel |-> FALSE, val |-> << >>]
Returned(kern, x) == [err |-> None, kernel |-> kern, val |-> x]

(***************************************************************************)
(* FusedScaleMaskSoftmax (softmax.py): the key rows query row i ranges     *)
(* over.  An explicit boolean mask suppresses its TRUE entries; with no    *)
(* mask a causal softmax lets query i see the keys up to its own position  *)
(* (the queries are the last sq of the sk positions) and a padding softmax *)
(* sees every key.                                                         *)
(***************************************************************************)
ScaleMaskSoftmaxVisible(attn_mask_type, mask, i, sq, sk) ==
    IF mask # NoMask
    THEN {j \in 1..sk : ~mask.m[i][j]}
    ELSE IF attn_mask_type = "causal"
         THEN {j \in 1..sk : j <= i + (sk - sq)}
         ELSE 1..sk

\* A constructor that raised: the error, and the sub-modules that were
\* constructed before it raised, in the order of their construction, those
\* of the sub-modules' own constructors included.
Failed(error, created) == [ok |-> FALSE, error |-> error, created |-> created]

(***************************************************************************)
(* UnfusedDotProductAttention                                              *)
(***************************************************************************)
\* A mutant of UnfusedInit: the softmax is given no scale.
UnfusedInit_NoSoftmaxScale(norm_factor, kw) ==
    IF kw.attn_mask_type \notin AttnMaskTypes
    THEN Failed("AssertionError", << >>)
    ELSE [ok |-> TRUE, error |-> None,
          created |-> <<"scale_mask_softmax", "attention_dropout">>,
          norm_factor |-> norm_factor,
          attn_mask_type |-> kw.attn_mask_type,
          softmax_in_fp32 |-> kw.attention_softmax_in_fp32,
          softmax_scale |-> NoNum]

\* kw is attn_kwargs: layer_number, apply_query_key_layer_scaling,
\* attention_softmax_in_fp32, attn_mask_type.
UnfusedInit(norm_factor, kw) ==
    IF kw.attn_mask_type \notin AttnMaskTypes
    THEN Failed("AssertionError", << >>)
    ELSE [ok |-> TRUE, error |-> None,
          created |-> <<"scale_mask_softmax", "attention_dropout">>,
          norm_factor |-> norm_factor,
          attn_mask_type |-> kw.attn_mask_type,
          softmax_in_fp32 |-> kw.attention_softmax_in_fp32,
          softmax_scale |-> IF kw.apply_query_key_layer_scaling
                            THEN kw.layer_number ELSE NoNum]

\* BMM1 / softmax / BMM2.  The result buffer is made on the current CUDA
\* device, so operands that are not on it make baddbmm / bmm raise.
UnfusedForward(self, q, k, v, mask) ==
    IF ~(q.is_cuda /\ k.is_cuda /\ v.is_cuda)
    THEN Raised("RuntimeError")
    ELSE Returned(FALSE,
           [i \in 1..Rows(q) |-> [c \in 1..Cols(q) |->
              [query |-> q.data[i][c],
               norm_factor |-> self.norm_factor,
               softmax_scale |-> self.softmax_scale,
               attended |-> {<<j, k.data[j][c], v.data[j][c]>> :
                               j \in ScaleMaskSoftmaxVisible(self.attn_mask_type,
                                        mask, i, Rows(q), Rows(k))}]]])

(***************************************************************************)
(* FlashAttention                                                          *)
(***************************************************************************)
\* flash_dev: "dev" in _flash_attn_version (module level, line 43).
FlashInit(flash_dev, norm_factor, kw) ==
    IF ~flash_dev
    THEN Failed("ImportError", << >>)
    ELSE IF kw.attn_mask_type # "causal"
    THEN Failed("AssertionError", << >>)
    ELSE IF ~kw.attention_softmax_in_fp32
    THEN Failed("AssertionError", << >>)
    ELSE [ok |-> TRUE, error |-> None, created |-> << >>,
          attn_causal_mask |-> (kw.attn_mask_type = "causal"),
          norm_factor |-> norm_factor,
          layer_number |-> kw.layer_number,
          apply_query_key_layer_scaling |-> kw.apply_query_key_layer_scaling]

\* x.transpose(0,1).contiguous().view(b * s, ...): row (c-1)*s + i of the
\* packed tensor is element (i, c).
Packed(t) ==
    [r \in 1..(Rows(t) * Cols(t)) |->
        t.data[((r - 1) % Rows(t)) + 1][((r - 1) \div Rows(t)) + 1]]

\* torch.arange(0, (batch_size + 1) * seqlen, step=seqlen), indexed from 0.
CuSeqlens(batch_size, seqlen) == [n \in 0..batch_size |-> n * seqlen]

\* A row of a packed tensor; a row past its end is memory the tensor does not
\* own, whose content is oob.
PackedRow(p, r, oob) == IF r <= Len(p) THEN p[r] ELSE oob

\* flash_attn_unpadded_func: sample n owns the query rows
\* cu_q[n-1]+1 .. cu_q[n] and the key/value rows cu_k[n-1]+1 .. cu_k[n];
\* with causal set, the a-th query of a sample sees its first a keys.
FlashKernel(pq, pk, pv, cu_q, cu_k, batch_size, causal, norm_factor, oob) ==
    [r \in 1..Len(pq) |->
       LET n  == CHOOSE m \in 1..batch_size : cu_q[m - 1] < r /\ r <= cu_q[m]
           a  == r - cu_q[n - 1]
           nk == cu_k[n] - cu_k[n - 1]
           see == IF causal THEN {x \in 1..nk : x <= a} ELSE 1..nk
       IN [query |-> pq[r],
           norm_factor |-> norm_factor,
           softmax_scale |-> NoNum,
           attended |-> {<<x, PackedRow(pk, cu_k[n - 1] + x, oob),
                              PackedRow(pv, cu_k[n - 1] + x, oob)>> : x \in see}]]

\* A mutant of FlashForwardAsserts: the external-mask assertion is missing.
FlashForwardAsserts_AcceptsMask(q, k, v, mask) ==
    /\ q.dtype \in HalfDtypes /\ k.dtype \in HalfDtypes /\ v.dtype \in HalfDtypes
    /\ q.is_cuda /\ k.is_cuda /\ v.is_cuda

\* The three assertions at the head of forward.
FlashForwardAsserts(q, k, v, mask) ==
    /\ q.dtype \in HalfDtypes /\ k.dtype \in HalfDtypes /\ v.dtype \in HalfDtypes
    /\ q.is_cuda /\ k.is_cuda /\ v.is_cuda
    /\ mask = NoMask

FlashForward(self, q, k, v, mask, oob) ==
    IF ~FlashForwardAsserts(q, k, v, mask)
    THEN Raised("AssertionError")
    ELSE LET batch_size == Cols(q)
             seqlen     == Rows(q)
             cu_seqlens == CuSeqlens(batch_size, seqlen)
             output     == FlashKernel(Packed(q), Packed(k), Packed(v),
                                       cu_seqlens, cu_seqlens, batch_size,
                                       self.attn_causal_mask, self.norm_factor, oob)
         IN \* output.view(batch_size, seqlen, -1).transpose(0, 1)
            Returned(TRUE,
              [i \in 1..seqlen |-> [c \in 1..batch_size |->
                  output[(c - 1) * seqlen + i]]])

(***************************************************************************)
(* DotProductAttention                                                     *)
(***************************************************************************)
\* math.sqrt(hidden_size_per_attention_head), times an integer factor.
NormFactor(times) == [sqrt_of |-> "hidden_size_per_attention_head", times |-> times]

\* A mutant of ClampLayerNumber: the layer number is taken as it is given.
ClampLayerNumber_AsGiven(layer_number) == layer_number

\* max(1, layer_number) on a given layer number <<n>>.
ClampLayerNumber(layer_number) == <<Max2(1, layer_number[1])>>

\* A mutant of UseFlashAttention: query-key layer scaling is not looked at.
UseFlashAttention_IgnoresScaling(nvte_flash_attn, softmax_in_fp32, attn_mask_type, apply_scaling) ==
    /\ nvte_flash_attn # 0
    /\ softmax_in_fp32
    /\ attn_mask_type = "causal"

\* self.use_flash_attention: the truth value of the "and" chain.
UseFlashAttention(nvte_flash_attn, softmax_in_fp32, attn_mask_type, apply_scaling) ==
    /\ nvte_flash_attn # 0
    /\ softmax_in_fp32
    /\ attn_mask_type = "causal"
    /\ ~apply_scaling

\* A mutant of BuildFlashAttention: the fast variant is never built.
BuildFlashAttention_Never(use, flash_dev, norm_factor_flash_attn, attn_kwargs) == NoObj

\* self.flash_attention is set only under "if self.use_flash_attention".
BuildFlashAttention(use, flash_dev, norm_factor_flash_attn, attn_kwargs) ==
    IF use THEN FlashInit(flash_dev, norm_factor_flash_attn, attn_kwargs) ELSE NoObj

\* Lines 352-360: projection_size = kv_channels * num_attention_heads is
\* divided by tp_size and by num_attention_heads; the head count itself is
\* not divided by tp_size.
DPADivides(num_attention_heads, kv_channels, tp_size) ==
    /\ DivideOk(kv_channels * num_attention_heads, tp_size)
    /\ DivideOk(kv_channels * num_attention_heads, num_attention_heads)

\* env: [NVTE_FLASH_ATTN, flash_dev]; cfg: the constructor's arguments.
DPAInit(env, cfg) ==
    LET apply_query_key_layer_scaling ==
            IF cfg.layer_number = NoNum THEN FALSE
            ELSE cfg.apply_query_key_layer_scaling
        layer_number ==
            IF cfg.layer_number = NoNum THEN NoNum
            ELSE ClampLayerNumber(cfg.layer_number)
        attention_softmax_in_fp32 ==
            IF apply_query_key_layer_scaling THEN TRUE
            ELSE cfg.attention_softmax_in_fp32
        norm_factor_flash_attn == NormFactor(1)
        norm_factor == IF apply_query_key_layer_scaling
                       THEN NormFactor(layer_number[1]) ELSE NormFactor(1)
        use == UseFlashAttention(env.NVTE_FLASH_ATTN, attention_softmax_in_fp32,
                                 cfg.attn_mask_type, apply_query_key_layer_scaling)
        attn_kwargs == [layer_number |-> layer_number,
                        apply_query_key_layer_scaling |-> apply_query_key_layer_scaling,
                        attention_softmax_in_fp32 |-> attention_softmax_in_fp32,
                        attn_mask_type |-> cfg.attn_mask_type]
        flash == BuildFlashAttention(use, env.flash_dev, norm_factor_flash_attn,
                                     attn_kwargs)
        unfused == UnfusedInit(norm_factor, attn_kwargs)
        flash_created == IF flash # NoObj THEN <<"flash_attention">> ELSE << >>
    IN  IF ~DPADivides(cfg.num_attention_heads, cfg.kv_channels, cfg.tp_size)
        THEN Failed("AssertionError", << >>)
        ELSE IF flash # NoObj /\ ~flash.ok
        THEN Failed(flash.error, << >>)
        ELSE IF ~unfused.ok
        THEN Failed(unfused.error, flash_created \o unfused.created)
        ELSE [ok |-> TRUE, error |-> None,
              created |-> flash_created \o unfused.created \o <<"unfused_attention">>,
              hidden_size_per_partition |->
                  Divide(cfg.kv_channels * cfg.num_attention_heads, cfg.tp_size),
              apply_query_key_layer_scaling |-> apply_query_key_layer_scaling,
              use_flash_attention |-> use,
              flash_attention |-> flash,
              unfused_attention |-> unfused]

\* What distributed.checkpoint(custom_forward, False,
\* self.get_rng_state_tracker, self.tp_group, *forward_args) is handed: the
\* function custom_forward wraps and the arguments it is to be run on again at
\* backward time, with the tracker and the group of the dispatcher.
CheckpointSaved(attention_func, forward_args) ==
    [function |-> attention_func,
     distribute_saved_activations |-> FALSE,
     get_rng_state_tracker |-> "self.get_rng_state_tracker",
     tp_group |-> "self.tp_group",
     args |-> forward_args]

\* _checkpointed_attention_forward: the forward value of checkpoint is that of
\* custom_forward(*forward_args), which is attention_func(*forward_args).
CheckpointedAttentionForward(res) == res

\* A mutant of ForwardUsesFlash: an explicit mask does not rule the fast path out.
ForwardUsesFlash_IgnoresMask(self, q, k, v, mask) ==
    IF \/ q.dtype \notin HalfDtypes
       \/ k.dtype \notin HalfDtypes
       \/ v.dtype \notin HalfDtypes
    THEN FALSE
    ELSE self.use_flash_attention

\* The per-call gate of forward: the stored preference, overridden by an
\* explicit mask or a query/key/value that is not fp16/bf16.
ForwardUsesFlash(self, q, k, v, mask) ==
    IF \/ mask # NoMask
       \/ q.dtype \notin HalfDtypes
       \/ k.dtype \notin HalfDtypes
       \/ v.dtype \notin HalfDtypes
    THEN FALSE
    ELSE self.use_flash_attention

\* self.flash_attention(query_layer, key_layer, value_layer): no mask is passed.
CallFlashAttention(self, q, k, v, oob) ==
    IF self.flash_attention = NoObj
    THEN Raised("AttributeError")
    ELSE FlashForward(self.flash_attention, q, k, v, NoMask, oob)

\* A mutant of DPAForward: a call that falls back clears the stored preference.
DPAForward_StickyFallback(self, q, k, v, mask, checkpoint_core_attention, oob) ==
    IF ForwardUsesFlash(self, q, k, v, mask)
    THEN [self |-> self, variant |-> "flash",
          checkpointed |-> checkpoint_core_attention,
          passed |-> <<q, k, v>>,
          saved |-> IF checkpoint_core_attention
                    THEN CheckpointSaved("flash_attention", <<q, k, v>>) ELSE NoObj,
          res |-> CallFlashAttention(self, q, k, v, oob)]
    ELSE [self |-> [self EXCEPT !.use_flash_attention = FALSE], variant |-> "unfused",
          checkpointed |-> checkpoint_core_attention,
          passed |-> <<q, k, v, mask>>,
          saved |-> IF checkpoint_core_attention
                    THEN CheckpointSaved("unfused_attention", <<q, k, v, mask>>) ELSE NoObj,
          res |-> UnfusedForward(self.unfused_attention, q, k, v, mask)]

\* A mutant of DPAForward: the checkpointed call of the reference path leaves
\* the mask out.
DPAForward_CheckpointWithoutMask(self, q, k, v, mask, checkpoint_core_attention, oob) ==
    IF ForwardUsesFlash(self, q, k, v, mask)
    THEN [self |-> self, variant |-> "flash",
          checkpointed |-> checkpoint_core_attention,
          passed |-> <<q, k, v>>,
          saved |-> IF checkpoint_core_attention
                    THEN CheckpointSaved("flash_attention", <<q, k, v>>) ELSE NoObj,
          res |-> CallFlashAttention(self, q, k, v, oob)]
    ELSE IF checkpoint_core_attention
    THEN [self |-> self, variant |-> "unfused", checkpointed |-> TRUE,
          passed |-> <<q, k, v, NoMask>>,
          saved |-> CheckpointSaved("unfused_attention", <<q, k, v, NoMask>>),
          res |-> UnfusedForward(self.unfused_attention, q, k, v, NoMask)]
    ELSE [self |-> self, variant |-> "unfused", checkpointed |-> FALSE,
          passed |-> <<q, k, v, mask>>,
          saved |-> NoObj,
          res |-> UnfusedForward(self.unfused_attention, q, k, v, mask)]

\* The dispatcher after the call (forward assigns no attribute), the variant
\* it called, whether through the checkpoint wrapper, the arguments it passed
\* to the variant, what it handed to checkpoint, and the outcome.
DPAForward(self, q, k, v, mask, checkpoint_core_attention, oob) ==
    IF ForwardUsesFlash(self, q, k, v, mask)
    THEN [self |-> self, variant |-> "flash",
          checkpointed |-> checkpoint_core_attention,
          passed |-> <<q, k, v>>,
          saved |-> IF checkpoint_core_attention
                    THEN CheckpointSaved("flash_attention", <<q, k, v>>) ELSE NoObj,
          res |-> IF checkpoint_core_attention
                  THEN CheckpointedAttentionForward(CallFlashAttention(self, q, k, v, oob))
                  ELSE CallFlashAttention(self, q, k, v, oob)]
    ELSE [self |-> self, variant |-> "unfused",
          checkpointed |-> checkpoint_core_attention,
          passed |-> <<q, k, v, mask>>,
          saved |-> IF checkpoint_core_attention
                    THEN CheckpointSaved("unfused_attention", <<q, k, v, mask>>) ELSE NoObj,
          res |-> IF checkpoint_core_attention
                  THEN CheckpointedAttentionForward(
                           UnfusedForward(self.unfused_attention, q, k, v, mask))
                  ELSE UnfusedForward(self.unfused_attention, q, k, v, mask)]

(***************************************************************************)
(* MultiHeadAttention and its inference key/value cache                    *)
(***************************************************************************)
\* transformer_engine.pytorch.constants.AttnTypes and LayerTypes
AttnTypes == {"self", "cross"}
LayerTypes == {"encoder", "decoder"}

\* The content of a cell of torch.empty memory that nothing was written to.
Uninit == "uninit"

\* A mutant of LayerNumberKey: the value the core attention scales by, that
\* is max(1, layer_number), and nothing when no layer number is given.
LayerNumberKey_Clamped(layer_number) ==
    IF layer_number = NoNum THEN NoNum ELSE <<ClampLayerNumber(layer_number)>>

\* self.layer_number = (layer_number,): the one-element tuple of the argument
\* as it was passed, a number or None.
LayerNumberKey(layer_number) == <<layer_number>>

\* Lines 518-520: the assertion on the attention type.
MHAInitAsserts(cfg) == cfg.attention_type \in AttnTypes

\* Lines 540-599: the projections a block constructs before its core
\* attention, by attention type and input layernorm.
MHAProjections(attention_type, input_layernorm) ==
    IF attention_type = "self"
    THEN IF input_layernorm THEN <<"layernorm_qkv">> ELSE <<"qkv">>
    ELSE (IF input_layernorm THEN <<"layernorm_query">> ELSE <<"query_layer">>) \o <<"key_value">>

\* cfg: the constructor's arguments.  self.layer_number is the one-element
\* tuple (layer_number,), whatever layer_number is.
MHAInit(env, cfg) ==
    LET core == DPAInit(env, [num_attention_heads |-> cfg.num_attention_heads,
                   kv_channels |-> cfg.kv_channels,
                   tp_size |-> cfg.tp_size,
                   layer_number |-> cfg.layer_number,
                   apply_query_key_layer_scaling |-> cfg.apply_query_key_layer_scaling,
                   attention_softmax_in_fp32 |-> cfg.attention_softmax_in_fp32,
                   attn_mask_type |-> cfg.attn_mask_type])
        projections == MHAProjections(cfg.attention_type, cfg.input_layernorm)
    IN  IF ~MHAInitAsserts(cfg)
        THEN Failed("AssertionError", << >>)
        ELSE IF ~DivideOk(cfg.num_attention_heads, cfg.tp_size)
        THEN Failed("AssertionError", << >>)
        ELSE IF ~core.ok
        THEN Failed(core.error, projections \o core.created)
        ELSE [ok |-> TRUE, error |-> None,
              created |-> projections \o core.created \o <<"core_attention", "proj">>,
              layer_number |-> LayerNumberKey(cfg.layer_number),
              input_layernorm |-> cfg.input_layernorm,
              attention_type |-> cfg.attention_type,
              return_layernorm_output |-> cfg.return_layernorm_output,
              params_dtype |-> cfg.params_dtype,
              hidden_size_per_attention_head |-> cfg.kv_channels,
              num_attention_heads_per_partition |->
                  Divide(cfg.num_attention_heads, cfg.tp_size),
              core_attention |-> core]

\* _allocate_memory: torch.empty of the given rows and columns, on the
\* accelerator, in the parameters' dtype.
AllocateMemory(self, inference_max_sequence_len, batch_size) ==
    [dtype |-> self.params_dtype,
     is_cuda |-> TRUE,
     shape |-> <<inference_max_sequence_len, batch_size,
                 self.num_attention_heads_per_partition,
                 self.hidden_size_per_attention_head>>,
     data |-> [r \in 1..inference_max_sequence_len |-> [c \in 1..batch_size |-> Uninit]]]

\* "if inference_params and self.layer_number is not None": self.layer_number
\* is a tuple, which is never None.
UsesCache(self, inference_params) ==
    inference_params # NoObj /\ self.layer_number # NoNum

\* A mutant of EnsureMemory: the buffers are allocated anew on every call.
EnsureMemory_AlwaysAllocates(self, inference_params, next_id) ==
    [inference_params EXCEPT !.key_value_memory_dict =
        [x \in DOMAIN @ \cup {self.layer_number} |->
            IF x = self.layer_number
            THEN [id |-> next_id,
                  key_memory |-> AllocateMemory(self, inference_params.max_sequence_len, inference_params.max_batch_size),
                  value_memory |-> AllocateMemory(self, inference_params.max_sequence_len, inference_params.max_batch_size)]
            ELSE @[x]]]

\* A mutant of EnsureMemory: an allocation starts the mapping anew, with the
\* buffers of this layer alone.
EnsureMemory_FreshMapping(self, inference_params, next_id) ==
    IF self.layer_number \notin DOMAIN inference_params.key_value_memory_dict
    THEN [inference_params EXCEPT !.key_value_memory_dict =
            [x \in {self.layer_number} |->
                [id |-> next_id,
                 key_memory |-> AllocateMemory(self, inference_params.max_sequence_len, inference_params.max_batch_size),
                 value_memory |-> AllocateMemory(self, inference_params.max_sequence_len, inference_params.max_batch_size)]]]
    ELSE inference_params

\* Lines 665-683: the session after the buffers of this layer were looked up,
\* and allocated and entered under self.layer_number if they were not there.
\* next_id names the pair an allocation makes.
EnsureMemory(self, inference_params, next_id) ==
    IF self.layer_number \notin DOMAIN inference_params.key_value_memory_dict
    THEN [inference_params EXCEPT !.key_value_memory_dict =
            [x \in DOMAIN @ \cup {self.layer_number} |->
                IF x = self.layer_number
                THEN [id |-> next_id,
                      key_memory |-> AllocateMemory(self, inference_params.max_sequence_len, inference_params.max_batch_size),
                      value_memory |-> AllocateMemory(self, inference_params.max_sequence_len, inference_params.max_batch_size)]
                ELSE @[x]]]
    ELSE inference_params

\* LayerNormLinear / Linear and split_tensor_along_last_dim: each output
\* element is a function of the input element at the same row and column.
Project(tag, t) ==
    Tensor(t.dtype, t.is_cuda, [i \in 1..Rows(t) |-> [c \in 1..Cols(t) |-> <<tag, t.data[i][c]>>]])

\* A mutant of WriteSlice: the rows are written from the top of the buffer.
WriteSlice_FromRowZero(memory, sequence_start, batch_start, layer) ==
    [memory EXCEPT !.data =
        [r \in 1..Len(@) |-> [c \in 1..Len(@[r]) |->
            IF /\ r <= Rows(layer)
               /\ batch_start < c /\ c <= batch_start + Cols(layer)
            THEN layer.data[r][c - batch_start]
            ELSE @[r][c]]]]

\* memory[sequence_start:sequence_end, batch_start:batch_end, ...] = layer,
\* for a slice that lies inside the buffer.
WriteSlice(memory, sequence_start, batch_start, layer) ==
    [memory EXCEPT !.data =
        [r \in 1..Len(@) |-> [c \in 1..Len(@[r]) |->
            IF /\ sequence_start < r /\ r <= sequence_start + Rows(layer)
               /\ batch_start < c /\ c <= batch_start + Cols(layer)
            THEN layer.data[r - sequence_start][c - batch_start]
            ELSE @[r][c]]]]

\* memory[:sequence_end, batch_start:batch_end, ...]; a slice ends where the
\* buffer ends.
ReadPrefix(memory, sequence_end, batch_start, batch_end) ==
    LET rows == IF sequence_end <= memory.shape[1] THEN sequence_end ELSE memory.shape[1]
        last == IF batch_end <= memory.shape[2] THEN batch_end ELSE memory.shape[2]
    IN  Tensor(memory.dtype, memory.is_cuda,
               [r \in 1..rows |-> [c \in 1..Max2(0, last - batch_start) |->
                   memory.data[r][batch_start + c]]])

\* The two assertions of lines 764 and 767.
CacheBoundsOk(memory, batch_end, sequence_end) ==
    batch_end <= memory.shape[2] /\ sequence_end <= memory.shape[1]

\* Lines 769-774: the session after key_layer and value_layer were copied
\* into the buffers of this layer at the session's offsets.
CopyKeyValue(self, inference_params, key_layer, value_layer) ==
    [inference_params EXCEPT !.key_value_memory_dict[self.layer_number] =
        [@ EXCEPT !.key_memory = WriteSlice(@, inference_params.sequence_len_offset,
                                            inference_params.batch_size_offset, key_layer),
                  !.value_memory = WriteSlice(@, inference_params.sequence_len_offset,
                                              inference_params.batch_size_offset, value_layer)]]

\* A mutant of AdjustKeyValue: the bounds are asserted after the copy.
AdjustKeyValue_ChecksAfterCopy(self, inference_params, key_layer, value_layer) ==
    LET batch_end == inference_params.batch_size_offset + Cols(key_layer)
        sequence_end == inference_params.sequence_len_offset + Rows(key_layer)
        written == CopyKeyValue(self, inference_params, key_layer, value_layer)
        entry == written.key_value_memory_dict[self.layer_number]
    IN  [err |-> IF CacheBoundsOk(entry.key_memory, batch_end, sequence_end)
                 THEN None ELSE "AssertionError",
         session |-> written,
         key_layer |-> ReadPrefix(entry.key_memory, sequence_end, inference_params.batch_size_offset, batch_end),
         value_layer |-> ReadPrefix(entry.value_memory, sequence_end, inference_params.batch_size_offset, batch_end)]

\* Lines 761-778 on a session whose buffers for this layer are present: the
\* error raised (None if none), the session after, and the key and value to
\* attend over.
AdjustKeyValue(self, inference_params, key_layer, value_layer) ==
    LET batch_start == inference_params.batch_size_offset
        batch_end == batch_start + Cols(key_layer)
        sequence_start == inference_params.sequence_len_offset
        sequence_end == sequence_start + Rows(key_layer)
        written == CopyKeyValue(self, inference_params, key_layer, value_layer)
        entry == written.key_value_memory_dict[self.layer_number]
    IN  IF ~CacheBoundsOk(inference_params.key_value_memory_dict[self.layer_number].key_memory, batch_end, sequence_end)
        THEN [err |-> "AssertionError", session |-> inference_params,
              key_layer |-> key_layer, value_layer |-> value_layer]
        ELSE [err |-> None, session |-> written,
              key_layer |-> ReadPrefix(entry.key_memory, sequence_end, batch_start, batch_end),
              value_layer |-> ReadPrefix(entry.value_memory, sequence_end, batch_start, batch_end)]

\* What forward hands back when it raises before the attention is reached.
MHARaised(e, session) ==
    [err |-> e, session |-> session, reached_attention |-> FALSE,
     query_layer |-> NoObj, key_layer |-> NoObj, value_layer |-> NoObj,
     variant |-> None, ctx |-> Raised(e), n_outputs |-> 0]

\* A mutant of AttentionOutputs: the layernorm output is returned whenever it
\* is asked for, with or without an input layernorm.
AttentionOutputs_WheneverAsked(self, query_layer, adj, core) ==
    [err |-> core.res.err, session |-> adj.session,
     reached_attention |-> TRUE,
     query_layer |-> query_layer,
     key_layer |-> adj.key_layer, value_layer |-> adj.value_layer,
     variant |-> core.variant, ctx |-> core.res,
     n_outputs |-> IF core.res.err # None THEN 0
                   ELSE IF self.return_layernorm_output
                   THEN 3 ELSE 2]

\* Lines 796-802: what forward returns once the dispatcher has returned core.
AttentionOutputs(self, query_layer, adj, core) ==
    [err |-> core.res.err, session |-> adj.session,
     reached_attention |-> TRUE,
     query_layer |-> query_layer,
     key_layer |-> adj.key_layer, value_layer |-> adj.value_layer,
     variant |-> core.variant, ctx |-> core.res,
     n_outputs |-> IF core.res.err # None THEN 0
                   ELSE IF self.input_layernorm /\ self.return_layernorm_output
                   THEN 3 ELSE 2]

\* Lines 784-802, after the key and value were adjusted with outcome adj.
CoreAttention(self, query_layer, adj, attention_mask, checkpoint_core_attention, oob) ==
    IF adj.err # None
    THEN MHARaised(adj.err, adj.session)
    ELSE CHOOSE out \in
           {AttentionOutputs(self, query_layer, adj, core) :
              core \in {DPAForward(self.core_attention, query_layer, adj.key_layer,
                                   adj.value_layer, attention_mask,
                                   checkpoint_core_attention, oob)}} : TRUE

\* MultiHeadAttention.forward.  inference_params is the session (NoObj for
\* None); the result holds the session after the call, what was passed to the
\* attention dispatcher, and the dispatcher's outcome.
MHAForward(self, hidden_states, attention_mask, encoder_output, checkpoint_core_attention, inference_params, next_id, oob) ==
    IF attention_mask # NoMask /\ attention_mask.dtype # "bool"
    THEN MHARaised("AssertionError", inference_params)
    ELSE
    LET kv_input == IF self.attention_type = "self" THEN hidden_states ELSE encoder_output
    IN  CHOOSE out \in
          {CoreAttention(self, Project("query", hidden_states), adj, attention_mask,
                         checkpoint_core_attention, oob) :
             adj \in {IF UsesCache(self, inference_params)
                      THEN AdjustKeyValue(self, EnsureMemory(self, inference_params, next_id),
                                          Project("key", kv_input), Project("value", kv_input))
                      ELSE [err |-> None, session |-> inference_params,
                            key_layer |-> Project("key", kv_input),
                            value_layer |-> Project("value", kv_input)]}} : TRUE

(***************************************************************************)
(* TransformerLayer                                                        *)
(***************************************************************************)
\* "kv_channels if kv_channels else (hidden_size // num_attention_heads)"
KvChannels(kv_channels, hidden_size, num_attention_heads) ==
    IF kv_channels # NoNum /\ kv_channels[1] # 0 THEN kv_channels[1]
    ELSE hidden_size \div num_attention_heads

\* The arguments MultiHeadAttention is constructed with (lines 975-998).
AttentionArgs(cfg, attn_mask_type, input_layernorm, attention_type) ==
    [num_attention_heads |-> cfg.num_attention_heads,
     kv_channels |-> KvChannels(cfg.kv_channels, cfg.hidden_size, cfg.num_attention_heads),
     layer_number |-> cfg.layer_number,
     apply_query_key_layer_scaling |-> cfg.apply_query_key_layer_scaling,
     attention_softmax_in_fp32 |-> cfg.attention_softmax_in_fp32,
     tp_size |-> cfg.tp_size,
     params_dtype |-> cfg.params_dtype,
     return_layernorm_output |-> cfg.apply_residual_connection_post_layernorm,
     attn_mask_type |-> attn_mask_type,
     input_layernorm |-> input_layernorm,
     attention_type |-> attention_type]

\* A mutant of TLInitAsserts: the layer type is not looked at.
TLInitAsserts_AnyLayerType(cfg) ==
    /\ cfg.self_attn_mask_type \in AttnMaskTypes
    /\ ~cfg.fuse_qkv_params => ~cfg.fuse_wgrad_accumulation

\* Lines 951-959: the assertions of TransformerLayer.__init__.
TLInitAsserts(cfg) ==
    /\ cfg.self_attn_mask_type \in AttnMaskTypes
    /\ cfg.layer_type \in LayerTypes
    /\ ~cfg.fuse_qkv_params => ~cfg.fuse_wgrad_accumulation

\* DropPath.__init__: drop_prob, in hundredths.
DropPathInit(drop_prob) ==
    [ok |-> TRUE, error |-> None, created |-> << >>, drop_prob |-> drop_prob]

\* "DropPath(drop_path_rate) if drop_path_rate > 0.0 else None"
BuildDropPath(drop_path_rate) ==
    IF drop_path_rate > 0 THEN DropPathInit(drop_path_rate) ELSE NoObj

\* TransformerLayer.__init__.  env.NVTE_BIAS_DROPOUT_FUSION is the environment
\* variable of that name.
TLInit(env, cfg) ==
    LET self_attention == MHAInit(env, AttentionArgs(cfg, cfg.self_attn_mask_type, ~cfg.output_layernorm, "self"))
        inter_attention == IF cfg.layer_type = "decoder"
                           THEN MHAInit(env, AttentionArgs(cfg, "padding", TRUE, "cross"))
                           ELSE NoObj
        drop_path == BuildDropPath(cfg.drop_path_rate)
    IN  IF ~TLInitAsserts(cfg)
        THEN Failed("AssertionError", << >>)
        ELSE IF ~self_attention.ok
        THEN Failed(self_attention.error, self_attention.created)
        ELSE IF inter_attention # NoObj /\ ~inter_attention.ok
        THEN Failed(inter_attention.error,
                    self_attention.created \o <<"self_attention">> \o inter_attention.created)
        ELSE [ok |-> TRUE, error |-> None,
              created |-> self_attention.created \o <<"self_attention">>
                          \o (IF inter_attention # NoObj
                              THEN inter_attention.created \o <<"inter_attention">>
                              ELSE << >>)
                          \o <<"layernorm_mlp">>
                          \o (IF drop_path # NoObj THEN <<"drop_path">> ELSE << >>)
                          \o (IF cfg.output_layernorm THEN <<"layernorm">> ELSE << >>),
              layer_number |-> cfg.layer_number,
              output_layernorm |-> cfg.output_layernorm,
              layer_type |-> cfg.layer_type,
              apply_residual_connection_post_layernorm |->
                  cfg.apply_residual_connection_post_layernorm,
              self_attention |-> self_attention,
              inter_attention |-> inter_attention,
              layernorm_mlp |-> [return_layernorm_output |->
                                     cfg.apply_residual_connection_post_layernorm],
              hidden_dropout |-> cfg.hidden_dropout,
              bias_dropout_fusion |-> (env.NVTE_BIAS_DROPOUT_FUSION # 0),
              drop_path |-> drop_path]

(***************************************************************************)
(* Activations after the attention.  A tensor's data is taken position by  *)
(* position: element (i, c) stands for all the features of batch column c  *)
(* at sequence position i.  Sums, dropout and the outputs of the           *)
(* projections are terms over their operands.                              *)
(***************************************************************************)
Plus(a, b) == <<"add", a, b>>

\* torch.nn.functional.dropout(x, p, training): the identity unless training
\* with p > 0, and then a random function of x.
Dropout(x, p, training) == IF training /\ p > 0 THEN <<"dropout", p, x>> ELSE x

\* 0, and the outcome of 0 times an infinite value.
Zero == <<"zero">>
NaN == <<"nan">>

Map1(tag, owner, data) ==
    [i \in 1..Len(data) |-> [c \in 1..Len(data[i]) |-> <<tag, owner, data[i][c]>>]]

\* The layernorm output a LayerNormLinear or LayerNormMLP returns with
\* return_layernorm_output, and the output of LayerNorm.
LayerNormOutput(owner, data) == Map1("layernorm", owner, data)

\* The output of MultiHeadAttention's proj over the context, and of
\* LayerNormMLP over its input; the bias comes back apart from it.
ProjOutput(owner, data) == Map1("proj", owner, data)
MLPOutput(data) == Map1("mlp", "layernorm_mlp", data)
Bias(owner) == <<"bias", owner>>

\* The values floor(keep_prob + torch.rand(...)) can take, rand being in
\* [0, 1): keep_prob is in hundredths.
RandomTensorValues(keep_prob) ==
    IF keep_prob % 100 = 0 THEN {keep_prob \div 100}
    ELSE {keep_prob \div 100, (keep_prob \div 100) + 1}

\* The random tensors of shape (hidden_state.shape[0], 1, ..., 1): one value
\* for each index of the first dimension.
RandomTensors(keep_prob, n) == [1..n -> RandomTensorValues(keep_prob)]

\* x.div(keep_prob) * r for r in {0, 1}: x / 0 is infinite, and 0 times it
\* is not a number.
DivTimes(x, keep_prob, r) ==
    IF keep_prob = 0 THEN NaN
    ELSE IF r = 0 THEN Zero
    ELSE <<"div", x, keep_prob>>

\* DropPath.forward (lines 58-71); random_tensor is what
\* floor(keep_prob + torch.rand(shape)) came out as.
DropPathForward(self, training, hidden_state, random_tensor) ==
    IF self.drop_prob = 0 \/ ~training
    THEN hidden_state
    ELSE [i \in 1..Len(hidden_state) |-> [c \in 1..Len(hidden_state[i]) |->
             DivTimes(hidden_state[i][c], 100 - self.drop_prob, random_tensor[i])]]

\* A mutant of SelectBiasDropoutAdd: the fused functions whatever the layer
\* has stored.
SelectBiasDropoutAdd_AlwaysFused(self, training) ==
    IF training
    THEN [name |-> "bias_dropout_add_fused_train", training |-> TRUE]
    ELSE [name |-> "bias_dropout_add_fused_inference", training |-> FALSE]

\* Lines 1153-1159: the bias-dropout-add function forward selects.
SelectBiasDropoutAdd(self, training) ==
    IF self.bias_dropout_fusion
    THEN IF training
         THEN [name |-> "bias_dropout_add_fused_train", training |-> TRUE]
         ELSE [name |-> "bias_dropout_add_fused_inference", training |-> FALSE]
    ELSE [name |-> "get_bias_dropout_add", training |-> training]

\* bias_dropout_add(x, bias, residual, prob, training) of jit.py, which the
\* three selected functions call: residual + dropout(x + bias).
BiasDropoutAdd(func, x, bias, residual, prob) ==
    [i \in 1..Len(x) |-> [c \in 1..Len(x[i]) |->
        Plus(residual[i][c], Dropout(Plus(x[i][c], bias), prob, func.training))]]

\* out = dropout(x + bias, p=self.hidden_dropout, training=self.training)
DropoutOfSum(x, bias, prob, training) ==
    [i \in 1..Len(x) |-> [c \in 1..Len(x[i]) |-> Dropout(Plus(x[i][c], bias), prob, training)]]

\* residual + self.drop_path(out)
AddDropPath(self, training, residual, out, random_tensor) ==
    [i \in 1..Len(out) |-> [c \in 1..Len(out[i]) |->
        Plus(residual[i][c],
             DropPathForward(self.drop_path, training, out, random_tensor)[i][c])]]

\* A step of forward: the sub-module or function that ran, the tensor it was
\* given, the residual and the function of a bias-dropout-add, and the result.
Step(name, input, residual, via, output) ==
    [step |-> name, input |-> input, residual |-> residual, via |-> via, output |-> output]

\* A mutant of SubBlockAdd: with stochastic depth the dropout is that of
\* training in evaluation mode too.
SubBlockAdd_DropoutAlwaysOn(self, training, name, x, bias, residual, random_tensor) ==
    IF self.drop_path = NoObj
    THEN Step(name, x, residual, SelectBiasDropoutAdd(self, training).name,
              BiasDropoutAdd(SelectBiasDropoutAdd(self, training), x, bias, residual,
                             self.hidden_dropout))
    ELSE Step(name, x, residual, "drop_path",
              AddDropPath(self, training, residual,
                          DropoutOfSum(x, bias, self.hidden_dropout, TRUE),
                          random_tensor))

\* A mutant of SubBlockAdd: the bias-dropout-add function is always used.
SubBlockAdd_NeverDropPath(self, training, name, x, bias, residual, random_tensor) ==
    Step(name, x, residual, SelectBiasDropoutAdd(self, training).name,
         BiasDropoutAdd(SelectBiasDropoutAdd(self, training), x, bias, residual,
                        self.hidden_dropout))

\* Lines 1161-1173 and 1205-1215: the bias-dropout-add of the self attention
\* and of the MLP.
SubBlockAdd(self, training, name, x, bias, residual, random_tensor) ==
    IF self.drop_path = NoObj
    THEN Step(name, x, residual, SelectBiasDropoutAdd(self, training).name,
              BiasDropoutAdd(SelectBiasDropoutAdd(self, training), x, bias, residual,
                             self.hidden_dropout))
    ELSE Step(name, x, residual, "drop_path",
              AddDropPath(self, training, residual,
                          DropoutOfSum(x, bias, self.hidden_dropout, training),
                          random_tensor))

\* Lines 1190-1193: the bias-dropout-add of the cross attention.
CrossAttentionAdd(self, training, name, x, bias, residual) ==
    Step(name, x, residual, SelectBiasDropoutAdd(self, training).name,
         BiasDropoutAdd(SelectBiasDropoutAdd(self, training), x, bias, residual,
                        self.hidden_dropout))

\* The number of values LayerNormMLP.forward returns when it returns its
\* bias: the output, the bias and, with return_layernorm_output, the
\* layernorm output.
LayerNormMLPOutputs(mlp) == IF mlp.return_layernorm_output THEN 3 ELSE 2

\* Lines 1146-1150, 1184-1188 and 1199-1203: the number of values forward
\* unpacks from the self attention, the cross attention and the MLP.
SelfAttentionUnpacks(self) == IF self.apply_residual_connection_post_layernorm /\ ~self.output_layernorm THEN 3 ELSE 2
InterAttentionUnpacks(self) == IF self.apply_residual_connection_post_layernorm THEN 3 ELSE 2
MLPUnpacks(self) == IF self.apply_residual_connection_post_layernorm THEN 3 ELSE 2

\* What forward hands back when it raises: the error, the stage that raised,
\* the session as the call leaves it, and what the self attention did.
TLRaised(e, stage, session, self_attention_outputs) ==
    [err |-> e, stage |-> stage, session |-> session,
     self_attention |-> self_attention_outputs, steps |-> << >>, output |-> << >>]

\* A mutant of SelfAttentionResidual: the layernorm output is never taken.
SelfAttentionResidual_Input(self, hidden_states) == hidden_states

\* Lines 1146-1150: the residual of the self attention.
SelfAttentionResidual(self, hidden_states) ==
    IF self.apply_residual_connection_post_layernorm /\ ~self.output_layernorm
    THEN LayerNormOutput("self_attention.layernorm_qkv", hidden_states)
    ELSE hidden_states

\* Lines 1184-1188 and 1199-1203: the residual of the cross attention and of
\* the MLP, whose input is bda_output.
SubBlockResidual(self, owner, bda_output) ==
    IF self.apply_residual_connection_post_layernorm
    THEN LayerNormOutput(owner, bda_output)
    ELSE bda_output

\* Lines 1196-1222: the MLP over bda_output, its bias-dropout-add and the
\* output layernorm.  steps are the steps that have led to bda_output.
MLPAndOutput(self, training, session, self_attention_outputs, steps, bda_output, random_tensor) ==
    IF LayerNormMLPOutputs(self.layernorm_mlp) # MLPUnpacks(self)
    THEN TLRaised("ValueError", "layernorm_mlp", session, self_attention_outputs)
    ELSE
    CHOOSE out \in
      {[err |-> None, stage |-> "done", session |-> session,
        self_attention |-> self_attention_outputs,
        steps |-> steps
                  \o <<Step("layernorm_mlp", bda_output, << >>, None, MLPOutput(bda_output)), add>>
                  \o (IF self.output_layernorm
                      THEN <<Step("layernorm", add.output, << >>, None,
                                  LayerNormOutput("layernorm", add.output))>>
                      ELSE << >>),
        output |-> IF self.output_layernorm
                   THEN LayerNormOutput("layernorm", add.output)
                   ELSE add.output] :
         add \in {SubBlockAdd(self, training, "mlp_bda", MLPOutput(bda_output),
                              Bias("layernorm_mlp"),
                              SubBlockResidual(self, "layernorm_mlp", bda_output),
                              random_tensor)}} : TRUE

\* A mutant of CrossAttention: the cross attention is left out.
CrossAttention_Skipped(self, training, hidden_states, self_attention_outputs, steps, bda_output, encoder_output, enc_dec_attn_mask, checkpoint_core_attention, oob, random_tensor) ==
    MLPAndOutput(self, training, self_attention_outputs.session, self_attention_outputs,
                 steps, bda_output, random_tensor)

\* Lines 1176-1193 for a decoder: the cross attention over bda_output, the
\* output of the bias-dropout-add that follows the self attention, and what
\* comes after it.
CrossAttention(self, training, hidden_states, self_attention_outputs, steps, bda_output, encoder_output, enc_dec_attn_mask, checkpoint_core_attention, oob, random_tensor) ==
    CHOOSE out \in
      {IF inter_attention_outputs.err # None
       THEN TLRaised(inter_attention_outputs.err, "inter_attention", self_attention_outputs.session,
                     self_attention_outputs)
       ELSE IF inter_attention_outputs.n_outputs # InterAttentionUnpacks(self)
       THEN TLRaised("ValueError", "inter_attention", self_attention_outputs.session,
                     self_attention_outputs)
       ELSE CHOOSE res \in
              {MLPAndOutput(self, training, self_attention_outputs.session,
                            self_attention_outputs,
                            steps \o <<Step("inter_attention", bda_output, << >>, None,
                                            add.input), add>>,
                            add.output, random_tensor) :
                 add \in {CrossAttentionAdd(self, training, "inter_attention_bda",
                              ProjOutput("inter_attention", inter_attention_outputs.ctx.val),
                              Bias("inter_attention"),
                              SubBlockResidual(self, "inter_attention.layernorm_query",
                                               bda_output))}} : TRUE :
         inter_attention_outputs \in
             {MHAForward(self.inter_attention,
                         Tensor(hidden_states.dtype, hidden_states.is_cuda, bda_output),
                         enc_dec_attn_mask, encoder_output,
                         checkpoint_core_attention, NoObj, 0, oob)}} : TRUE

\* Lines 1146-1222, after the self attention has returned.  random_tensors
\* are the two random tensors the call may draw.
AfterSelfAttention(self, training, hidden_states, self_attention_outputs, encoder_output, enc_dec_attn_mask, checkpoint_core_attention, oob, random_tensors) ==
    IF self_attention_outputs.err # None
    THEN TLRaised(self_attention_outputs.err, "self_attention", self_attention_outputs.session,
                  self_attention_outputs)
    ELSE IF self_attention_outputs.n_outputs # SelfAttentionUnpacks(self)
    THEN TLRaised("ValueError", "self_attention", self_attention_outputs.session,
                  self_attention_outputs)
    ELSE CHOOSE out \in
           {IF self.layer_type = "decoder"
            THEN CrossAttention(self, training, hidden_states, self_attention_outputs,
                                <<Step("self_attention", hidden_states.data, << >>, None,
                                       add.input), add>>,
                                add.output, encoder_output, enc_dec_attn_mask,
                                checkpoint_core_attention, oob, random_tensors[2])
            ELSE MLPAndOutput(self, training, self_attention_outputs.session,
                              self_attention_outputs,
                              <<Step("self_attention", hidden_states.data, << >>, None,
                                     add.input), add>>,
                              add.output, random_tensors[2]) :
              add \in {SubBlockAdd(self, training, "self_attention_bda",
                           ProjOutput("self_attention", self_attention_outputs.ctx.val),
                           Bias("self_attention"),
                           SelfAttentionResidual(self, hidden_states.data),
                           random_tensors[1])}} : TRUE

\* TransformerLayer.forward.  training is self.training, which train() and
\* eval() set on the layer and on its sub-modules alike.
TLForward(self, training, hidden_states, attention_mask, encoder_output, enc_dec_attn_mask, checkpoint_core_attention, inference_params, next_id, oob, random_tensors) ==
    IF attention_mask # NoMask /\ attention_mask.dtype # "bool"
    THEN TLRaised("AssertionError", "attention_mask", inference_params,
                  MHARaised("AssertionError", inference_params))
    ELSE CHOOSE out \in
           {AfterSelfAttention(self, training, hidden_states, self_attention_outputs,
                               encoder_output, enc_dec_attn_mask, checkpoint_core_attention,
                               oob, random_tensors) :
              self_attention_outputs \in
                  {MHAForward(self.self_attention, hidden_states, attention_mask, NoObj,
                              checkpoint_core_attention, inference_params, next_id, oob)}} : TRUE

(***************************************************************************)
(* The inputs of the model.                                                *)
(***************************************************************************)
MaxLen == 2        \* sequence rows of a tensor passed in
MaxCols == 2       \* batch columns of a tensor passed in
MaxLayer == 2      \* layer numbers passed to a constructor

\* A tensor's content: element (i, c) is named after the tensor and its place.
Data(tag, s, b) == [i \in 1..s |-> [c \in 1..b |-> <<tag, i, c>>]]

\* Boolean masks (TRUE suppresses): one hiding the first key, one hiding the
\* keys after the query's own row.
MaskFirst(sq, sk) == [dtype |-> "bool", m |-> [i \in 1..sq |-> [j \in 1..sk |-> j = 1]]]
MaskFuture(sq, sk) == [dtype |-> "bool", m |-> [i \in 1..sq |-> [j \in 1..sk |-> j > i]]]
Masks(sq, sk) == {NoMask, MaskFirst(sq, sk)}

\* What a read past the end of a tensor may find.
OobValues == {"junk_a", "junk_b"}

\* Passed where key and value have the rows of the query: the kernel then reads
\* no row past the end, and the value is never looked at.
NoRowPastEnd == "unread"

EnvSet == [NVTE_FLASH_ATTN : {0, 1, 2}, flash_dev : BOOLEAN]

LayerNumbers == {NoNum} \cup {<<n>> : n \in 0..MaxLayer}

CfgSet == [num_attention_heads : {2}, kv_channels : {2}, tp_size : {1}, layer_number : LayerNumbers, apply_query_key_layer_scaling : BOOLEAN, attention_softmax_in_fp32 : BOOLEAN, attn_mask_type : {"causal", "padding", "arbitrary"}]

\* The dtypes of query, key and value: all three alike, or one of them fp32.
DtypeTriples == {<<d, d, d>> : d \in Dtypes} \cup {<<"float32", "float16", "float16">>, <<"float16", "float32", "float16">>, <<"float16", "float16", "float32">>}

(***************************************************************************)
(* The attention modules used on their own: a program constructs one       *)
(* DotProductAttention or one FlashAttention and calls its forward.        *)
(*   ctor      the constructor's environment and arguments                 *)
(*   dpa, fa   the constructed DotProductAttention / FlashAttention        *)
(*   call      the last forward call: its arguments and its outcome        *)
(*   fellBack  an earlier call on a dispatcher that prefers the fast path  *)
(*             ran the reference path                                      *)
(***************************************************************************)
VARIABLES ctor, dpa, fa, call, fellBack

\* A transformer layer used for inference with one session.
\*   layer             the constructed TransformerLayer
\*   inference_params  the session object the caller passes to forward
\*   kv                the forward call that just ended: its arguments, the
\*                     session as it was before, and the outcome
\*   caller            what the caller is generating: the batch columns it
\*                     feeds, and whether it has advanced by single tokens
\*                     only since it last went back to the first position
\*   allocated         number of buffer pairs allocated so far
VARIABLES layer, inference_params, kv, caller, allocated

\* A block that is constructed and, when it is a TransformerLayer, run.
\*   block     the construction: the class, the environment, the arguments
\*             and the constructor's outcome
\*   training  self.training of the block and of its sub-modules
\*   fwd       the forward call that just ended: its random draws, its
\*             steps and its output
\*   environ   os.environ of the process the block lives in
VARIABLES block, training, fwd, environ

dvars == <<ctor, dpa, fa, call, fellBack>>
kvvars == <<layer, inference_params, kv, caller, allocated>>
bvars == <<block, training, fwd, environ>>
vars == <<ctor, dpa, fa, call, fellBack, layer, inference_params, kv, caller, allocated, block, training, fwd, environ>>

NoCall == [op |-> None]

Init ==
    /\ \E env \in EnvSet, cfg \in CfgSet :
          /\ ctor = [env |-> env, cfg |-> cfg]
          /\ \/ dpa = DPAInit(env, cfg) /\ fa = NoObj
             \/ dpa = NoObj /\ fa = FlashInit(env.flash_dev, NormFactor(1), cfg)
    /\ call = NoCall
    /\ fellBack = FALSE
    /\ layer = NoObj /\ inference_params = NoObj /\ kv = NoCall
    /\ caller = NoObj /\ allocated = 0
    /\ block = NoObj /\ training = TRUE /\ fwd = NoCall /\ environ = NoObj

\* DotProductAttention.forward on self-attention inputs of MaxLen rows and
\* MaxCols columns, all three on one device.
DPACall ==
    /\ dpa # NoObj
    /\ dpa.ok
    /\ \E dt \in DtypeTriples, cuda \in BOOLEAN, ckpt \in BOOLEAN, mask \in Masks(MaxLen, MaxLen) :
          LET oob == NoRowPastEnd
              q == Tensor(dt[1], cuda, Data("q", MaxLen, MaxCols))
              k == Tensor(dt[2], cuda, Data("k", MaxLen, MaxCols))
              v == Tensor(dt[3], cuda, Data("v", MaxLen, MaxCols))
              r == DPAForward(dpa, q, k, v, mask, ckpt, oob)
          IN  /\ dpa' = r.self
              /\ call' = [op |-> "DotProductAttention.forward",
                          q |-> q, k |-> k, v |-> v, mask |-> mask,
                          checkpoint_core_attention |-> ckpt,
                          variant |-> r.variant, checkpointed |-> r.checkpointed,
                          saved |-> r.saved,
                          res |-> r.res]
              /\ fellBack' = (fellBack \/ (dpa.use_flash_attention /\ r.variant = "unfused"))
    /\ UNCHANGED <<ctor, fa, kvvars, bvars>>

\* FlashAttention.forward called directly.
FlashCall ==
    /\ fa # NoObj
    /\ fa.ok
    /\ \E dt \in DtypeTriples, cq \in BOOLEAN, ck \in BOOLEAN, cv \in BOOLEAN, mask \in Masks(MaxLen, MaxLen) :
          LET oob == NoRowPastEnd
              q == Tensor(dt[1], cq, Data("q", MaxLen, MaxCols))
              k == Tensor(dt[2], ck, Data("k", MaxLen, MaxCols))
              v == Tensor(dt[3], cv, Data("v", MaxLen, MaxCols))
          IN  call' = [op |-> "FlashAttention.forward",
                       q |-> q, k |-> k, v |-> v, mask |-> mask,
                       checkpoint_core_attention |-> FALSE,
                       variant |-> "flash", checkpointed |-> FALSE,
                       saved |-> NoObj,
                       res |-> FlashForward(fa, q, k, v, mask, oob)]
    /\ UNCHANGED <<ctor, dpa, fa, fellBack, kvvars, bvars>>

Next == DPACall \/ FlashCall

Spec == Init /\ [][Next]_vars

(***************************************************************************)
(* Properties of the dispatcher and of its variants.                       *)
(***************************************************************************)
IsDPACall == call.op = "DotProductAttention.forward"
IsFlashCall == call.op = "FlashAttention.forward"
Constructed(obj) == obj # NoObj /\ obj.ok
AllHalf(c) == c.q.dtype \in HalfDtypes /\ c.k.dtype \in HalfDtypes /\ c.v.dtype \in HalfDtypes
AllCuda(c) == c.q.is_cuda /\ c.k.is_cuda /\ c.v.is_cuda

\* C1: a constructed dispatcher prefers the fast path exactly when the
\* NVTE_FLASH_ATTN toggle is non-zero, softmax-in-fp32 is on, the mask kind is
\* causal and query-key layer scaling is off (it counts as off when no layer
\* number was given); and no forward call reaches FlashAttention on a
\* dispatcher whose scaling is enabled.
C1_FastPathGate ==
    Constructed(dpa) =>
       /\ dpa.use_flash_attention <=>
             /\ ctor.env.NVTE_FLASH_ATTN # 0
             /\ ctor.cfg.attention_softmax_in_fp32
             /\ ctor.cfg.attn_mask_type = "causal"
             /\ ~(ctor.cfg.apply_query_key_layer_scaling /\ ctor.cfg.layer_number # NoNum)
       /\ dpa.apply_query_key_layer_scaling <=>
             (ctor.cfg.apply_query_key_layer_scaling /\ ctor.cfg.layer_number # NoNum)
       /\ (IsDPACall /\ call.variant = "flash") => ~dpa.apply_query_key_layer_scaling

\* C1 witness: scaling was requested without a layer number, was forced off,
\* and a forward call ran the flash-attn kernel.
C1_Witness ==
    /\ Constructed(dpa)
    /\ ctor.cfg.apply_query_key_layer_scaling
    /\ ctor.cfg.layer_number = NoNum
    /\ IsDPACall
    /\ call.variant = "flash"
    /\ call.res.kernel

\* C2: on a dispatcher that prefers the fast path, a forward call runs the
\* reference path when it is given a mask or a query/key/value that is not
\* fp16/bf16 and the fast path otherwise, whatever the earlier calls did; and
\* no forward call changes the dispatcher (its stored preference included).
C2_FallbackIsPerCall ==
    [][(Constructed(dpa) /\ call'.op = "DotProductAttention.forward") =>
          /\ dpa' = dpa
          /\ dpa.use_flash_attention =>
                call'.variant = IF call'.mask # NoMask \/ ~AllHalf(call')
                                THEN "unfused" ELSE "flash"]_vars

\* C2 witness: the flash-attn kernel runs in a call made after an earlier call
\* on the same dispatcher fell back to the reference path.
C2_Witness ==
    /\ Constructed(dpa)
    /\ fellBack
    /\ IsDPACall
    /\ call.variant = "flash"
    /\ call.res.kernel

\* C3: a forward call with an explicit mask on a dispatcher that prefers the
\* fast path does not invoke the fast variant, and its outcome is that of the
\* dispatcher's UnfusedDotProductAttention on the same query, key, value and
\* mask.
C3_MaskedCallIsReference ==
    (Constructed(dpa) /\ IsDPACall /\ dpa.use_flash_attention /\ call.mask # NoMask) =>
       /\ call.variant = "unfused"
       /\ ~call.res.kernel
       /\ call.res = UnfusedForward(dpa.unfused_attention, call.q, call.k, call.v, call.mask)

\* C3 witness: such a call, on fp16 inputs the fast path would otherwise take,
\* returned an output.
C3_Witness ==
    /\ Constructed(dpa)
    /\ IsDPACall
    /\ dpa.use_flash_attention
    /\ call.mask # NoMask
    /\ AllHalf(call)
    /\ call.res.err = None
    /\ call.res.val # << >>

C5_FlashPreconditions ==
    /\ (fa # NoObj /\ (ctor.cfg.attn_mask_type # "causal" \/ ~ctor.cfg.attention_softmax_in_fp32)) =>
          /\ ~fa.ok
          /\ fa.error \in {"AssertionError", "ImportError"}
          /\ ctor.env.flash_dev => fa.error = "AssertionError"
          /\ call.op = None
    /\ (call.op # None /\ call.variant = "flash"
          /\ (~AllHalf(call) \/ ~AllCuda(call) \/ (IsFlashCall /\ call.mask # NoMask))) =>
          /\ call.res.err = "AssertionError"
          /\ ~call.res.kernel
          /\ call.res.val = << >>

\* C5 witness: forward was called on a constructed FlashAttention with fp16/bf16
\* accelerator tensors and a mask, and raised.
C5_Witness ==
    /\ Constructed(fa)
    /\ IsFlashCall
    /\ AllHalf(call)
    /\ AllCuda(call)
    /\ call.mask # NoMask
    /\ call.res.err = "AssertionError"

(***************************************************************************)
(* Inference with a key/value cache: a program constructs a                *)
(* TransformerLayer and a session, and calls forward of the layer or of    *)
(* its self-attention block with the session, moving the session's         *)
(* offsets between calls.                                                  *)
(***************************************************************************)
KVEnv == [NVTE_FLASH_ATTN |-> 1, flash_dev |-> TRUE, NVTE_BIAS_DROPOUT_FUSION |-> 1]

LayerCfg(params_dtype, layer_type, self_attn_mask_type) ==
    [hidden_size |-> 4, num_attention_heads |-> 2, kv_channels |-> NoNum,
     layer_number |-> <<1>>, self_attn_mask_type |-> self_attn_mask_type,
     tp_size |-> 1, params_dtype |-> params_dtype,
     fuse_wgrad_accumulation |-> FALSE, fuse_qkv_params |-> FALSE,
     apply_query_key_layer_scaling |-> FALSE, attention_softmax_in_fp32 |-> TRUE,
     apply_residual_connection_post_layernorm |-> FALSE,
     output_layernorm |-> FALSE, layer_type |-> layer_type,
     hidden_dropout |-> 10, drop_path_rate |-> 0]

\* The layers that are run with a session: both dtypes, both types, both
\* mask kinds, and a layer number that is 1, 0 or not given.
LayerCfgSet == {[LayerCfg(p[1], p[2], p[3]) EXCEPT !.layer_number = p[4]] : p \in {<<"float16", "encoder", "causal", <<1>>>>, <<"float32", "decoder", "causal", <<1>>>>, <<"float32", "encoder", "padding", NoNum>>, <<"float32", "decoder", "padding", <<0>>>>}}

\* The session object: the fields forward reads and the mapping it fills.
InferenceParams(max_batch_size, max_sequence_len) ==
    [max_sequence_len |-> max_sequence_len, max_batch_size |-> max_batch_size,
     sequence_len_offset |-> 0, batch_size_offset |-> 0,
     key_value_memory_dict |-> << >>]

\* The activations of sq tokens after the first so, for b batch columns after
\* the first bo: an element is named after its token and its column.
HiddenStates(dtype, so, bo, sq, b) ==
    Tensor(dtype, TRUE, [i \in 1..sq |-> [c \in 1..b |-> <<"x", so + i, bo + c>>]])

EncoderOutput(dtype, b) == Tensor(dtype, TRUE, Data("enc", 1, b))

\* A mask that is not boolean.
FloatMask(sq, sk) == [dtype |-> "float32", m |-> [i \in 1..sq |-> [j \in 1..sk |-> FALSE]]]

SessionMasks(sq, sk) == {NoMask, MaskFirst(sq, sk), FloatMask(sq, sk)}

\* The masks of a TransformerLayer.forward call: <<attention_mask, enc_dec_attn_mask>>
LayerMasks(sq, sk) == {<<NoMask, NoMask>>, <<FloatMask(sq, sk), NoMask>>, <<NoMask, FloatMask(sq, 1)>>, <<NoMask, MaskFuture(sq, 1)>>}

\* The random tensor of a call that draws none.
NoRandom == << >>

\* The largest allocation number in the session's mapping, or n.
Allocated(session, n) ==
    IF \E x \in DOMAIN session.key_value_memory_dict : session.key_value_memory_dict[x].id > n
    THEN n + 1 ELSE n

InitKV ==
    /\ ctor = NoObj /\ dpa = NoObj /\ fa = NoObj /\ call = NoCall /\ fellBack = FALSE
    /\ block = NoObj /\ training = TRUE /\ fwd = NoCall /\ environ = NoObj
    /\ \E cfg \in LayerCfgSet : layer = TLInit(KVEnv, cfg)
    /\ inference_params = InferenceParams(MaxCols, MaxLen)
    /\ kv = NoCall
    /\ caller = [batch |-> 1, tokens |-> TRUE]
    /\ allocated = 0

\* self_attention.forward(hidden_states, attention_mask, inference_params=...)
MHACall ==
    /\ kv = NoCall
    /\ layer.ok
    /\ \E sq \in 1..MaxLen :
       \E mask \in SessionMasks(sq, inference_params.sequence_len_offset + sq) :
       \E r \in {MHAForward(layer.self_attention,
                              HiddenStates(layer.self_attention.params_dtype,
                                           inference_params.sequence_len_offset,
                                           inference_params.batch_size_offset, sq, caller.batch),
                              mask, NoObj, FALSE, inference_params, allocated + 1, NoRowPastEnd)} :
              /\ inference_params' = r.session
              /\ allocated' = Allocated(r.session, allocated)
              /\ kv' = [op |-> "MultiHeadAttention.forward", sq |-> sq,
                        attention_mask |-> mask, enc_dec_attn_mask |-> NoMask,
                        before |-> inference_params, err |-> r.err,
                        stage |-> IF r.err = None THEN "done" ELSE "self_attention",
                        attn |-> r]
    /\ UNCHANGED <<layer, caller, dvars, bvars>>

\* layer.forward(hidden_states, attention_mask, encoder_output,
\*               enc_dec_attn_mask, inference_params=...)
TLCall ==
    /\ kv = NoCall
    /\ layer.ok
    /\ \E sq \in 1..MaxLen :
       \E masks \in LayerMasks(sq, inference_params.sequence_len_offset + sq) :
       \E r \in {TLForward(layer, FALSE,
                             HiddenStates(layer.self_attention.params_dtype,
                                          inference_params.sequence_len_offset,
                                          inference_params.batch_size_offset, sq, caller.batch),
                             masks[1],
                             IF layer.layer_type = "decoder"
                             THEN EncoderOutput(layer.self_attention.params_dtype, caller.batch)
                             ELSE NoObj,
                             masks[2], FALSE, inference_params, allocated + 1, NoRowPastEnd,
                             <<NoRandom, NoRandom>>)} :
              /\ inference_params' = r.session
              /\ allocated' = Allocated(r.session, allocated)
              /\ kv' = [op |-> "TransformerLayer.forward", sq |-> sq,
                        attention_mask |-> masks[1], enc_dec_attn_mask |-> masks[2],
                        before |-> inference_params, err |-> r.err,
                        stage |-> r.stage,
                        attn |-> r.self_attention]
    /\ UNCHANGED <<layer, caller, dvars, bvars>>

\* After a call that succeeded the caller moves the session on by the tokens
\* it has just fed.
Advance ==
    /\ kv # NoCall
    /\ kv.err = None
    /\ inference_params' = [inference_params EXCEPT !.sequence_len_offset = @ + kv.sq]
    /\ caller' = [caller EXCEPT !.tokens = @ /\ kv.sq = 1]
    /\ kv' = NoCall
    /\ UNCHANGED <<layer, allocated, dvars, bvars>>

\* The caller leaves the offsets where they are (after an error, or to feed
\* the same positions again).
Discard ==
    /\ kv # NoCall
    /\ kv' = NoCall
    /\ UNCHANGED <<layer, inference_params, caller, allocated, dvars, bvars>>

\* The caller starts a new generation at the first position, for b columns
\* after the first bo.
Reset ==
    /\ kv = NoCall
    /\ \E bo \in 0..(MaxCols - 1), b \in 1..MaxCols :
          /\ inference_params' = [inference_params EXCEPT !.sequence_len_offset = 0,
                                                          !.batch_size_offset = bo]
          /\ caller' = [batch |-> b, tokens |-> TRUE]
    /\ UNCHANGED <<layer, kv, allocated, dvars, bvars>>

\* The caller declares another maximum sequence length on the session.
SetMaxSequenceLen ==
    /\ kv = NoCall
    /\ \E m \in 1..MaxLen :
          /\ m # inference_params.max_sequence_len
          /\ inference_params' = [inference_params EXCEPT !.max_sequence_len = m]
    /\ UNCHANGED <<layer, kv, caller, allocated, dvars, bvars>>

NextKV == MHACall \/ TLCall \/ Advance \/ Discard \/ Reset \/ SetMaxSequenceLen

SpecKV == InitKV /\ [][NextKV]_vars

(***************************************************************************)
(* Properties of the key/value cache                                       *)
(***************************************************************************)
IsMHACall == kv.op = "MultiHeadAttention.forward"

\* The key under which the self-attention block keeps its buffers.
LayerKey == layer.self_attention.layer_number

\* The buffers of the layer as the call has left them.
Entry == inference_params.key_value_memory_dict[LayerKey]

MaskAccepted == kv.attention_mask.dtype \in {"none", "bool"}

\* A cell of the layer's buffers as it was when the call began; a buffer the
\* call has allocated began as torch.empty has left it.
OldCell(which, r, c) ==
    IF LayerKey \in DOMAIN kv.before.key_value_memory_dict
    THEN kv.before.key_value_memory_dict[LayerKey][which].data[r][c]
    ELSE Uninit

\* The rows of the sequence and the columns of the batch dimension of the
\* buffers the call works on.
BufferRows == IF LayerKey \in DOMAIN inference_params.key_value_memory_dict THEN Entry.key_memory.shape[1] ELSE kv.before.max_sequence_len
BufferCols == IF LayerKey \in DOMAIN inference_params.key_value_memory_dict THEN Entry.key_memory.shape[2] ELSE kv.before.max_batch_size

KVInBounds ==
    /\ kv.before.batch_size_offset + caller.batch <= BufferCols
    /\ kv.before.sequence_len_offset + kv.sq <= BufferRows

\* The projection of the token at row r and column c that a call writes.
Projected(which, r, c) ==
    <<IF which = "key_memory" THEN "key" ELSE "value", <<"x", r, c>>>>

\* C6: after a MultiHeadAttention.forward call with a session and within
\* bounds, the cells of the key and value buffers at rows
\* sequence_len_offset+1 .. sequence_len_offset+new_len and columns
\* batch_size_offset+1 .. batch_size_offset+batch hold the newly projected
\* key and value, every other cell is as it was, and the key and value the
\* attention dispatcher was called with are rows 1 .. sequence_len_offset +
\* new_len of the buffers for those columns.
C6_WriteSliceReadPrefix ==
    (IsMHACall /\ MaskAccepted /\ KVInBounds) =>
        LET so == kv.before.sequence_len_offset
            bo == kv.before.batch_size_offset
            b == caller.batch
        IN  /\ LayerKey \in DOMAIN inference_params.key_value_memory_dict
            /\ \A which \in {"key_memory", "value_memory"} :
               \A r \in 1..BufferRows, c \in 1..BufferCols :
                  Entry[which].data[r][c] =
                      IF so < r /\ r <= so + kv.sq /\ bo < c /\ c <= bo + b
                      THEN Projected(which, r, c)
                      ELSE OldCell(which, r, c)
            /\ kv.attn.reached_attention
            /\ kv.attn.key_layer.data =
                  [r \in 1..(so + kv.sq) |-> [c \in 1..b |-> Entry.key_memory.data[r][bo + c]]]
            /\ kv.attn.value_layer.data =
                  [r \in 1..(so + kv.sq) |-> [c \in 1..b |-> Entry.value_memory.data[r][bo + c]]]
            /\ kv.attn.ctx = DPAForward(layer.self_attention.core_attention,
                                        kv.attn.query_layer, kv.attn.key_layer,
                                        kv.attn.value_layer, kv.attention_mask,
                                        FALSE, NoRowPastEnd).res

\* A call within bounds at a later position, on buffers an earlier call has
\* allocated and written: the prefix passed on is longer than the new slice.
C6_Witness ==
    /\ IsMHACall
    /\ kv.err = None
    /\ kv.before.sequence_len_offset > 0
    /\ LayerKey \in DOMAIN kv.before.key_value_memory_dict
    /\ Rows(kv.attn.key_layer) > kv.sq
    /\ kv.attn.key_layer.data[1][1] # Uninit
    /\ kv.before.batch_size_offset > 0

\* The block run once, without a session, over the first n tokens of the
\* columns the caller is generating.
FullRun(n) ==
    MHAForward(layer.self_attention,
               HiddenStates(layer.self_attention.params_dtype, 0,
                            kv.before.batch_size_offset, n, caller.batch),
               NoMask, NoObj, FALSE, NoObj, 0, NoRowPastEnd)

\* C7: when a caller generates token by token through the cache (calls of
\* length 1, sequence_len_offset advanced by 1 after each), the output of the
\* self-attention block for a position equals the output for that position of
\* one run over a full sequence, whichever attention variant the dispatcher
\* selects.  Stated for causal self-attention, where the output of a position
\* does not depend on the length of the full sequence.
C7_IncrementalDecodeEquivalence ==
    (/\ IsMHACall
     /\ kv.err = None
     /\ kv.sq = 1
     /\ caller.tokens
     /\ kv.attention_mask = NoMask
     /\ layer.self_attention.core_attention.unfused_attention.attn_mask_type = "causal")
    => \A n \in (kv.before.sequence_len_offset + 1)..BufferRows :
          FullRun(n).ctx.val[kv.before.sequence_len_offset + 1] = kv.attn.ctx.val[1]

\* C8: a MultiHeadAttention.forward call with a session whose batch or
\* sequence end exceeds the buffers fails, the attention dispatcher is not
\* invoked, and every cell of the key and value buffers is as it was.
C8_BoundsExceededIsFatal ==
    (IsMHACall /\ ~KVInBounds) =>
        /\ kv.err # None
        /\ ~kv.attn.reached_attention
        /\ \A x \in DOMAIN inference_params.key_value_memory_dict :
           \A which \in {"key_memory", "value_memory"} :
           \A r \in 1..BufferRows, c \in 1..BufferCols :
              inference_params.key_value_memory_dict[x][which].data[r][c] = OldCell(which, r, c)

\* A call past the end of buffers that hold keys of earlier calls.
C8_Witness ==
    /\ IsMHACall
    /\ MaskAccepted
    /\ ~KVInBounds
    /\ kv.err = "AssertionError"
    /\ LayerKey \in DOMAIN kv.before.key_value_memory_dict
    /\ \E r \in 1..BufferRows, c \in 1..BufferCols : Entry.key_memory.data[r][c] # Uninit

\* C9: a TransformerLayer.forward or MultiHeadAttention.forward call that
\* ends in an error leaves the session exactly as it was before the call: no
\* new entry in the mapping of layers to buffers, no buffer cell changed.
C9_NoMutationBeforeFatalCheck ==
    (kv # NoCall /\ kv.err # None) => inference_params = kv.before

\* C10: no step removes, replaces or resizes a buffer pair of the session; a
\* pair appears only by a forward call, for the calling layer, with the shape
\* (max_sequence_len, max_batch_size, heads per partition, head dimension)
\* the session declares when the call begins; a call whose mask is accepted
\* leaves the layer's pair in the mapping.
C10_AllocatedOnceNeverResized ==
    [][LET old == inference_params.key_value_memory_dict
           new == inference_params'.key_value_memory_dict
           shape == <<inference_params.max_sequence_len, inference_params.max_batch_size,
                      layer.self_attention.num_attention_heads_per_partition,
                      layer.self_attention.hidden_size_per_attention_head>>
       IN  /\ \A x \in DOMAIN old :
                /\ x \in DOMAIN new
                /\ new[x].id = old[x].id
                /\ \A which \in {"key_memory", "value_memory"} :
                      /\ new[x][which].shape = old[x][which].shape
                      /\ Len(new[x][which].data) = Len(old[x][which].data)
           /\ \A x \in DOMAIN new \ DOMAIN old :
                /\ x = LayerKey
                /\ kv = NoCall /\ kv' # NoCall
                /\ \A which \in {"key_memory", "value_memory"} :
                      /\ new[x][which].shape = shape
                      /\ Len(new[x][which].data) = shape[1]
                      /\ \A r \in 1..shape[1] : Len(new[x][which].data[r]) = shape[2]
           /\ (kv = NoCall /\ kv' # NoCall /\ kv'.attention_mask.dtype \in {"none", "bool"})
                 => LayerKey \in DOMAIN new
      ]_vars

\* A later call that succeeds on buffers allocated under another declared
\* maximum sequence length than the session declares now.
C10_Witness ==
    /\ kv # NoCall
    /\ kv.err = None
    /\ LayerKey \in DOMAIN kv.before.key_value_memory_dict
    /\ kv.before.max_sequence_len # Entry.key_memory.shape[1]
    /\ Entry.id = kv.before.key_value_memory_dict[LayerKey].id

(***************************************************************************)
(* Construction and training: a program constructs one block, which is a   *)
(* TransformerLayer, a MultiHeadAttention, a DotProductAttention or an     *)
(* UnfusedDotProductAttention, switches it between train() and eval(), and *)
(* calls forward on a TransformerLayer.                                    *)
(***************************************************************************)
BlockEnvs == {[KVEnv EXCEPT !.NVTE_BIAS_DROPOUT_FUSION = f] : f \in {0, 1}}

\* drop_path_rate, in hundredths.
DropPathRates == {-50, 0, 50, 100}

BaseCfg == LayerCfg("float32", "encoder", "padding")

\* The layers that are run: every layer type, residual selection, output
\* layernorm and drop path rate.
RunCfgs == {[BaseCfg EXCEPT !.layer_type = t, !.output_layernorm = o, !.apply_residual_connection_post_layernorm = a, !.drop_path_rate = r] : t \in LayerTypes, o \in BOOLEAN, a \in BOOLEAN, r \in DropPathRates}

\* Layers with one argument off the base: a layer type and a mask kind that
\* do not exist, the fusion flags, and partition counts that do and do not
\* divide the head count.
OddCfgs == {[BaseCfg EXCEPT !.layer_type = "adapter"], [BaseCfg EXCEPT !.self_attn_mask_type = "arbitrary"], [BaseCfg EXCEPT !.fuse_wgrad_accumulation = TRUE], [BaseCfg EXCEPT !.fuse_wgrad_accumulation = TRUE, !.fuse_qkv_params = TRUE], [BaseCfg EXCEPT !.tp_size = 2], [BaseCfg EXCEPT !.tp_size = 2, !.num_attention_heads = 3, !.hidden_size = 6], [BaseCfg EXCEPT !.layer_type = "decoder", !.tp_size = 2, !.num_attention_heads = 3, !.hidden_size = 6]}

\* The arguments of a MultiHeadAttention constructed on its own.
MHACfgs == {[AttentionArgs(BaseCfg, m, ln, t) EXCEPT !.num_attention_heads = p[1], !.tp_size = p[2], !.return_layernorm_output = rl] : m \in {"causal", "padding", "arbitrary"}, ln \in BOOLEAN, rl \in BOOLEAN, t \in {"self", "cross", "encoder"}, p \in {<<2, 1>>, <<2, 2>>, <<3, 2>>}}

\* The arguments of a DotProductAttention constructed on its own.
DPACfgs == [num_attention_heads : {2, 3}, kv_channels : {1, 2}, tp_size : {1, 2}, layer_number : {<<1>>}, apply_query_key_layer_scaling : {FALSE}, attention_softmax_in_fp32 : {TRUE}, attn_mask_type : {"causal", "padding", "arbitrary"}]

\* The arguments of an UnfusedDotProductAttention constructed on its own.
UnfusedCfgs == [layer_number : {<<1>>}, apply_query_key_layer_scaling : BOOLEAN, attention_softmax_in_fp32 : {TRUE}, attn_mask_type : {"causal", "padding", "arbitrary"}]

\* The arguments of a DropPath constructed on its own.
DropPathCfgs == [drop_prob : {0, 50, 100}]

Block(kind, env, cfg, obj) == [kind |-> kind, env |-> env, cfg |-> cfg, obj |-> obj]

InitBlock ==
    /\ ctor = NoObj /\ dpa = NoObj /\ fa = NoObj /\ call = NoCall /\ fellBack = FALSE
    /\ layer = NoObj /\ inference_params = NoObj /\ kv = NoCall
    /\ caller = NoObj /\ allocated = 0
    /\ block = NoObj
    /\ training = TRUE
    /\ fwd = NoCall
    /\ environ \in BlockEnvs

\* The program constructs its block.
Construct ==
    /\ block = NoObj
    /\ \/ \E cfg \in RunCfgs \cup OddCfgs :
             block' = Block("TransformerLayer", environ, cfg, TLInit(environ, cfg))
       \/ \E cfg \in MHACfgs :
             block' = Block("MultiHeadAttention", environ, cfg, MHAInit(environ, cfg))
       \/ \E cfg \in DPACfgs :
             block' = Block("DotProductAttention", environ, cfg, DPAInit(environ, cfg))
       \/ \E cfg \in UnfusedCfgs :
             block' = Block("UnfusedDotProductAttention", environ, cfg,
                            UnfusedInit(NormFactor(1), cfg))
       \/ \E cfg \in DropPathCfgs :
             block' = Block("DropPath", environ, cfg, DropPathInit(cfg.drop_prob))
    /\ UNCHANGED <<training, fwd, environ, dvars, kvvars>>

\* os.environ["NVTE_BIAS_DROPOUT_FUSION"] = "0" or "1", before the block is
\* constructed or between its construction and its first call.
SetEnviron ==
    /\ fwd = NoCall
    /\ \E f \in {0, 1} :
          /\ f # environ.NVTE_BIAS_DROPOUT_FUSION
          /\ environ' = [environ EXCEPT !.NVTE_BIAS_DROPOUT_FUSION = f]
    /\ UNCHANGED <<block, training, fwd, dvars, kvvars>>

\* block.train() and block.eval()
SetTraining ==
    /\ block # NoObj
    /\ block.kind \in {"TransformerLayer", "DropPath"}
    /\ block.obj.ok
    /\ training' = ~training
    /\ UNCHANGED <<block, fwd, environ, dvars, kvvars>>

\* The random tensors a call can draw: the self attention's and the MLP's.
RandomDraws(self, mode, n) ==
    IF self.drop_path # NoObj /\ mode /\ self.drop_path.drop_prob # 0
    THEN RandomTensors(100 - self.drop_path.drop_prob, n) \X RandomTensors(100 - self.drop_path.drop_prob, n)
    ELSE {<<NoRandom, NoRandom>>}

\* block.forward(hidden_states, encoder_output=...) on MaxLen positions of
\* MaxCols batch columns, with no mask and no inference session.
BlockForward ==
    /\ block # NoObj
    /\ block.kind = "TransformerLayer"
    /\ block.obj.ok
    /\ \E random_tensors \in RandomDraws(block.obj, training, MaxLen) :
       \E r \in {TLForward(block.obj, training,
                             HiddenStates(block.cfg.params_dtype, 0, 0, MaxLen, MaxCols),
                             NoMask,
                             IF block.obj.layer_type = "decoder"
                             THEN EncoderOutput(block.cfg.params_dtype, MaxCols)
                             ELSE NoObj,
                             NoMask, FALSE, NoObj, 0, NoRowPastEnd, random_tensors)} :
          fwd' = [op |-> "TransformerLayer.forward", training |-> training,
                  environ |-> environ,
                  hidden_states |-> HiddenStates(block.cfg.params_dtype, 0, 0, MaxLen, MaxCols).data,
                  random_tensors |-> random_tensors,
                  err |-> r.err, steps |-> r.steps, output |-> r.output]
    /\ UNCHANGED <<block, training, environ, dvars, kvvars>>

\* block.forward(hidden_states, encoder_output=...) of a MultiHeadAttention
\* on MaxLen positions of MaxCols batch columns, with no mask and no
\* inference session.
AttentionForward ==
    /\ block # NoObj
    /\ block.kind = "MultiHeadAttention"
    /\ block.obj.ok
    /\ \E r \in {MHAForward(block.obj,
                            HiddenStates(block.cfg.params_dtype, 0, 0, MaxLen, MaxCols),
                            NoMask,
                            IF block.obj.attention_type = "cross"
                            THEN EncoderOutput(block.cfg.params_dtype, MaxCols)
                            ELSE NoObj,
                            FALSE, NoObj, 0, NoRowPastEnd)} :
          fwd' = [op |-> "MultiHeadAttention.forward", training |-> training,
                  environ |-> environ,
                  hidden_states |-> HiddenStates(block.cfg.params_dtype, 0, 0, MaxLen, MaxCols).data,
                  random_tensors |-> << >>,
                  err |-> r.err, steps |-> << >>, output |-> r.ctx.val,
                  n_outputs |-> r.n_outputs]
    /\ UNCHANGED <<block, training, environ, dvars, kvvars>>

\* block.forward(hidden_state) of a DropPath on MaxLen by MaxCols elements.
DropPathCall ==
    /\ block # NoObj
    /\ block.kind = "DropPath"
    /\ \E random_tensor \in (IF training /\ block.obj.drop_prob # 0
                               THEN RandomTensors(100 - block.obj.drop_prob, MaxLen)
                               ELSE {NoRandom}) :
          fwd' = [op |-> "DropPath.forward", training |-> training,
                  environ |-> environ,
                  hidden_states |-> HiddenStates("float32", 0, 0, MaxLen, MaxCols).data,
                  random_tensors |-> <<random_tensor>>,
                  err |-> None, steps |-> << >>,
                  output |-> DropPathForward(block.obj, training,
                                 HiddenStates("float32", 0, 0, MaxLen, MaxCols).data,
                                 random_tensor)]
    /\ UNCHANGED <<block, training, environ, dvars, kvvars>>

NextBlock == Construct \/ SetTraining \/ SetEnviron \/ BlockForward \/ AttentionForward \/ DropPathCall

SpecBlock == InitBlock /\ [][NextBlock]_vars

\* The layer number the layer was constructed with, and the value its core
\* attention scales by.
GivenLayerNumber == layer.layer_number
ScalingLayerNumber == IF GivenLayerNumber = NoNum THEN NoNum ELSE ClampLayerNumber(GivenLayerNumber)

\* C11 as stated: every key of the session's mapping holds the layer number of
\* the block, which is the clamped value max(1, layer_number) that the core
\* attention scales by.
C11_KeyIsClampedLayerNumber ==
    \A x \in DOMAIN inference_params.key_value_memory_dict :
        /\ GivenLayerNumber # NoNum
        /\ x[1] = ScalingLayerNumber

\* C11: the key under which a block stores its buffers is the one-element
\* tuple of the layer number as it was passed to the constructor, not clamped,
\* and the tuple of None when none was passed; it holds the value the core
\* attention scales by exactly when a layer number of 1 or more was passed;
\* the mapping has no other key than that of the calling block, and layer
\* numbers that differ give keys that differ.
C11_KeyIsGivenLayerNumber ==
    /\ LayerKey = <<GivenLayerNumber>>
    /\ \A x \in DOMAIN inference_params.key_value_memory_dict : x = LayerKey
    /\ (GivenLayerNumber # NoNum /\ LayerKey[1] = ScalingLayerNumber) <=>
           (GivenLayerNumber # NoNum /\ GivenLayerNumber[1] >= 1)
    /\ \A a \in LayerNumbers : \A b \in LayerNumbers :
           a # b => LayerNumberKey(a) # LayerNumberKey(b)

\* C11 witness: a layer constructed with the layer number 0 has its buffers
\* in the mapping after a call that succeeded.
C11_Witness ==
    /\ kv # NoCall
    /\ kv.err = None
    /\ GivenLayerNumber = <<0>>
    /\ LayerKey \in DOMAIN inference_params.key_value_memory_dict

(***************************************************************************)
(* Properties of construction and of the layer's forward                   *)
(***************************************************************************)
IsLayer == block # NoObj /\ block.kind = "TransformerLayer"
IsAttentionBlock == block # NoObj /\ block.kind = "MultiHeadAttention"
IsDispatcher == block # NoObj /\ block.kind = "DotProductAttention"
IsUnfused == block # NoObj /\ block.kind = "UnfusedDotProductAttention"
BlockBuilt == block # NoObj /\ block.obj.ok
BlockRejected == block # NoObj /\ ~block.obj.ok /\ block.obj.error = "AssertionError"

\* The partition count does not divide the head count of the block, or not
\* its hidden size: hidden_size of a TransformerLayer, and for the attention
\* classes the size kv_channels * num_attention_heads of the projection.
NonDividingPartition ==
    \/ block.cfg.num_attention_heads % block.cfg.tp_size # 0
    \/ IsLayer /\ block.cfg.hidden_size % block.cfg.tp_size # 0
    \/ ~IsLayer /\ (block.cfg.kv_channels * block.cfg.num_attention_heads) % block.cfg.tp_size # 0

\* C12 as stated: a TransformerLayer, MultiHeadAttention or
\* DotProductAttention whose partition count does not divide its head count
\* or its hidden size is rejected by the constructor with an assertion error,
\* so none is ever constructed.
C12_NonDividingPartitionRejected ==
    ((IsLayer \/ IsAttentionBlock \/ IsDispatcher) /\ NonDividingPartition) => BlockRejected


\* C13: a TransformerLayer whose self-attention mask kind or layer type is
\* not a supported one, or that asks for gradient-accumulation fusion without
\* fused QKV parameters, a MultiHeadAttention whose attention type is not
\* supported, and an UnfusedDotProductAttention whose mask kind is not
\* supported are rejected by their constructor with an assertion error, and
\* the constructor has created no sub-module when it fails.
C13_InvalidConfigurationRejected ==
    /\ (IsLayer /\ (\/ block.cfg.self_attn_mask_type \notin {"causal", "padding"}
                    \/ block.cfg.layer_type \notin {"encoder", "decoder"}
                    \/ block.cfg.fuse_wgrad_accumulation /\ ~block.cfg.fuse_qkv_params))
          => (BlockRejected /\ block.obj.created = << >>)
    /\ (IsAttentionBlock /\ block.cfg.attention_type \notin {"self", "cross"})
          => (BlockRejected /\ block.obj.created = << >>)
    /\ (IsUnfused /\ block.cfg.attn_mask_type \notin {"causal", "padding"})
          => (BlockRejected /\ block.obj.created = << >>)

\* C13 witness: a TransformerLayer of a layer type that does not exist was
\* rejected.
C13_Witness ==
    /\ IsLayer
    /\ block.cfg.layer_type \notin {"encoder", "decoder"}
    /\ BlockRejected
    /\ block.obj.created = << >>


IsLayerCall == fwd.op = "TransformerLayer.forward" /\ fwd.err = None
IsDropPathCall == fwd.op = "DropPath.forward"

\* The steps of the call that are the bias-dropout-add of the self attention
\* and of the MLP, and the bias each of them adds.
OwnAddSteps == {k \in 1..Len(fwd.steps) : fwd.steps[k].step \in {"self_attention_bda", "mlp_bda"}}
StepBias(k) == IF fwd.steps[k].step = "self_attention_bda" THEN <<"bias", "self_attention">> ELSE IF fwd.steps[k].step = "mlp_bda" THEN <<"bias", "layernorm_mlp">> ELSE <<"bias", "inter_attention">>
Positions == {<<i, c>> : i \in 1..MaxLen, c \in 1..MaxCols}

\* What the selected bias-dropout-add function yields at step k: the residual
\* plus the sum of output and bias, under dropout when training.
UndroppedPath(k, i, c) ==
    <<"add", fwd.steps[k].residual[i][c],
      IF fwd.training /\ block.obj.hidden_dropout > 0
      THEN <<"dropout", block.obj.hidden_dropout, <<"add", fwd.steps[k].input[i][c], StepBias(k)>>>>
      ELSE <<"add", fwd.steps[k].input[i][c], StepBias(k)>>>>

\* C14: a DropPath whose drop probability is 0 or which is in evaluation mode
\* returns its input; and in a TransformerLayer whose drop path rate is not
\* positive or which is in evaluation mode, the outputs of the self attention
\* and of the MLP sub-block are what the bias-dropout-add path yields, which
\* in evaluation mode is residual + (output + bias) with no dropout.
C14_StochasticDepthNoOp ==
    /\ (IsDropPathCall /\ (block.cfg.drop_prob = 0 \/ ~fwd.training))
          => fwd.output = fwd.hidden_states
    /\ (IsLayerCall /\ (block.cfg.drop_path_rate <= 0 \/ ~fwd.training))
          => \A k \in OwnAddSteps : \A p \in Positions :
                /\ fwd.steps[k].output[p[1]][p[2]] = UndroppedPath(k, p[1], p[2])
                /\ ~fwd.training =>
                      fwd.steps[k].output[p[1]][p[2]] =
                         <<"add", fwd.steps[k].residual[p[1]][p[2]],
                           <<"add", fwd.steps[k].input[p[1]][p[2]], StepBias(k)>>>>

\* C14 witness: a layer with stochastic depth configured ran in evaluation
\* mode.
C14_Witness ==
    /\ IsLayer
    /\ IsLayerCall
    /\ block.cfg.drop_path_rate > 0
    /\ ~fwd.training
    /\ OwnAddSteps # {}


\* What step k adds to its residual at position i of batch column c, and what
\* its DropPath was given there: the dropout of output + bias.
Contribution(k, i, c) == fwd.steps[k].output[i][c][3]
DropPathInput(k, i, c) ==
    IF fwd.training /\ block.obj.hidden_dropout > 0
    THEN <<"dropout", block.obj.hidden_dropout, <<"add", fwd.steps[k].input[i][c], StepBias(k)>>>>
    ELSE <<"add", fwd.steps[k].input[i][c], StepBias(k)>>

\* C15 as stated: in a training call of a layer with drop path rate p > 0,
\* each batch column of the self attention's and of the MLP's contribution is
\* either zero at all sequence positions or the input divided by 1 - p at all
\* of them.
C15_OneDecisionPerSample ==
    (IsLayerCall /\ fwd.training /\ block.cfg.drop_path_rate > 0) =>
        \A k \in OwnAddSteps : \A c \in 1..MaxCols :
            \/ \A i \in 1..MaxLen : Contribution(k, i, c) = <<"zero">>
            \/ \A i \in 1..MaxLen :
                  Contribution(k, i, c) =
                     <<"div", DropPathInput(k, i, c), 100 - block.cfg.drop_path_rate>>


\* The name of the bias-dropout-add function the call has selected.
SelectedName ==
    IF block.obj.bias_dropout_fusion
    THEN IF fwd.training THEN "bias_dropout_add_fused_train" ELSE "bias_dropout_add_fused_inference"
    ELSE "get_bias_dropout_add"

AddSteps == {k \in 1..Len(fwd.steps) : fwd.steps[k].step \in {"self_attention_bda", "inter_attention_bda", "mlp_bda"}}

\* The random tensor step k has drawn.
StepRandom(k) == IF fwd.steps[k].step = "self_attention_bda" THEN fwd.random_tensors[1] ELSE fwd.random_tensors[2]

\* drop_path(dropout(output + bias)) of step k.
DropPathOfDropout(k) ==
    DropPathForward(block.obj.drop_path, fwd.training,
                    [i \in 1..MaxLen |-> [c \in 1..MaxCols |-> DropPathInput(k, i, c)]],
                    StepRandom(k))

\* C16: in a layer with a drop path rate above 0 the self attention and the
\* MLP sub-block do not go through the bias-dropout-add function but yield
\* residual + drop_path(dropout(output + bias)); the cross attention of a
\* decoder goes through the selected bias-dropout-add function whatever the
\* rate; and with a rate of 0 or less every sub-block does.
C16_StochasticDepthBypass ==
    IsLayerCall =>
        \A k \in AddSteps : \A p \in Positions :
            IF block.cfg.drop_path_rate > 0 /\ k \in OwnAddSteps
            THEN /\ fwd.steps[k].via = "drop_path"
                 /\ fwd.steps[k].output[p[1]][p[2]] =
                       <<"add", fwd.steps[k].residual[p[1]][p[2]], DropPathOfDropout(k)[p[1]][p[2]]>>
            ELSE /\ fwd.steps[k].via = SelectedName
                 /\ fwd.steps[k].output[p[1]][p[2]] = UndroppedPath(k, p[1], p[2])

\* C16 witness: a decoder with stochastic depth ran in training mode and
\* dropped the self attention's contribution at some position.
C16_Witness ==
    /\ IsLayer
    /\ IsLayerCall
    /\ fwd.training
    /\ block.cfg.drop_path_rate = 50
    /\ block.cfg.layer_type = "decoder"
    /\ \E k \in OwnAddSteps : \E p \in Positions : fwd.steps[k].output[p[1]][p[2]][3] = <<"zero">>
    /\ \E k \in AddSteps : fwd.steps[k].step = "inter_attention_bda"


\* The steps a call of the layer is to run, in their order.
StepsInOrder ==
    <<"self_attention", "self_attention_bda">>
    \o (IF block.cfg.layer_type = "decoder" THEN <<"inter_attention", "inter_attention_bda">> ELSE << >>)
    \o <<"layernorm_mlp", "mlp_bda">>
    \o (IF block.cfg.output_layernorm THEN <<"layernorm">> ELSE << >>)

\* C17: a forward call of the layer that returns has run the self attention,
\* its bias-dropout-add, for a decoder and only for a decoder the cross
\* attention and its bias-dropout-add, the MLP, its bias-dropout-add and, when
\* and only when output_layernorm is set, the final layernorm, each once and
\* in this order; the first step is given hidden_states, each later step the
\* result of the step before it, and the call returns the last result.
C17_StepsInFixedOrder ==
    IsLayerCall =>
        /\ [k \in 1..Len(fwd.steps) |-> fwd.steps[k].step] = StepsInOrder
        /\ fwd.steps[1].input = fwd.hidden_states
        /\ \A k \in 2..Len(fwd.steps) : fwd.steps[k].input = fwd.steps[k - 1].output
        /\ fwd.output = fwd.steps[Len(fwd.steps)].output

\* C17 witness: a decoder with an output layernorm returned from forward
\* after seven steps.
C17_Witness ==
    /\ IsLayer
    /\ IsLayerCall
    /\ block.cfg.layer_type = "decoder"
    /\ block.cfg.output_layernorm
    /\ Len(fwd.steps) = 7


\* The input of the sub-block whose bias-dropout-add is step k, and whether
\* the residual of step k is that input or a layernorm output of it.
SubBlockInput(k) == fwd.steps[k - 1].input
ResidualIsInput(k) == fwd.steps[k].residual = SubBlockInput(k)
ResidualIsNormalized(k) ==
    \A p \in Positions :
        /\ fwd.steps[k].residual[p[1]][p[2]][1] = "layernorm"
        /\ fwd.steps[k].residual[p[1]][p[2]][3] = SubBlockInput(k)[p[1]][p[2]]

\* C18 as stated: for each sub-block, with every output_layernorm and layer
\* type, the residual is the sub-block's input when
\* apply_residual_connection_post_layernorm is off and the sub-block's
\* layernorm output when it is on.
C18_ResidualFollowsSetting ==
    IsLayerCall =>
        \A k \in AddSteps :
            IF block.cfg.apply_residual_connection_post_layernorm
            THEN ResidualIsNormalized(k)
            ELSE ResidualIsInput(k)

\* C18: the residual of the cross attention and of the MLP is the sub-block's
\* input when apply_residual_connection_post_layernorm is off and the
\* sub-block's layernorm output when it is on; that of the self attention is
\* its layernorm output when apply_residual_connection_post_layernorm is on
\* and output_layernorm is off, and its input otherwise.  The selection
\* depends on the constructor's arguments only.
C18_ResidualSelection ==
    IsLayerCall =>
        \A k \in AddSteps :
            IF /\ block.cfg.apply_residual_connection_post_layernorm
               /\ ~(fwd.steps[k].step = "self_attention_bda" /\ block.cfg.output_layernorm)
            THEN ResidualIsNormalized(k)
            ELSE ResidualIsInput(k)

\* C18 witness: a decoder with output_layernorm and
\* apply_residual_connection_post_layernorm returned from forward.
C18_Witness ==
    /\ IsLayer
    /\ IsLayerCall
    /\ block.cfg.apply_residual_connection_post_layernorm
    /\ block.cfg.output_layernorm
    /\ block.cfg.layer_type = "decoder"
    /\ \E k \in AddSteps : fwd.steps[k].step = "self_attention_bda" /\ ResidualIsInput(k)


(***************************************************************************)
(* Properties of query-key layer scaling                                   *)
(***************************************************************************)
\* The scaling factors of the elements a forward call of the dispatcher has
\* returned: <<norm factor, softmax scale>> of each.
CallFactors ==
    IF IsDPACall /\ call.res.err = None
    THEN {<<call.res.val[i][c].norm_factor, call.res.val[i][c].softmax_scale>> : i \in 1..MaxLen, c \in 1..MaxCols}
    ELSE {}

\* C19: a dispatcher constructed without a layer number has query-key layer
\* scaling off whatever was asked for, its reference path divides by
\* sqrt(head_dim) alone and gives the softmax no scale; with a layer number n
\* the layer number in use is max(1, n), so a factor the reference path
\* scales by is never 0 or negative.
C19_LayerNumberInvariant ==
    Constructed(dpa) =>
        /\ ctor.cfg.layer_number = NoNum =>
              /\ ~dpa.apply_query_key_layer_scaling
              /\ dpa.unfused_attention.norm_factor = [sqrt_of |-> "hidden_size_per_attention_head", times |-> 1]
              /\ dpa.unfused_attention.softmax_scale = NoNum
              /\ \A f \in CallFactors : f[1].times = 1 /\ f[2] = NoNum
        /\ ctor.cfg.layer_number # NoNum =>
              /\ dpa.unfused_attention.norm_factor.times \in
                    {1, IF ctor.cfg.layer_number[1] >= 1 THEN ctor.cfg.layer_number[1] ELSE 1}
              /\ dpa.unfused_attention.softmax_scale \in
                    {NoNum, <<IF ctor.cfg.layer_number[1] >= 1 THEN ctor.cfg.layer_number[1] ELSE 1>>}
              /\ \A f \in CallFactors : f[1].times >= 1 /\ (f[2] # NoNum => f[2][1] >= 1)

\* C19 witness: a dispatcher constructed with the layer number 0 and scaling
\* asked for ran the reference path; and one constructed with no layer number
\* and scaling asked for exists.
C19_Witness ==
    /\ Constructed(dpa)
    /\ ctor.cfg.apply_query_key_layer_scaling
    /\ \/ ctor.cfg.layer_number = <<0>> /\ CallFactors # {}
       \/ ctor.cfg.layer_number = NoNum /\ CallFactors # {}

\* C20: with query-key layer scaling enabled the reference path divides by
\* sqrt(head_dim) times the layer number in use and the softmax is given that
\* same layer number as its scale; with scaling disabled the norm factor is
\* sqrt(head_dim) and the softmax is given no scale; a fast variant that is
\* built is given sqrt(head_dim).
C20_ScalingFactorsCancel ==
    Constructed(dpa) =>
        LET n == IF ctor.cfg.layer_number[1] >= 1 THEN ctor.cfg.layer_number[1] ELSE 1
        IN  /\ dpa.apply_query_key_layer_scaling =>
                  /\ dpa.unfused_attention.norm_factor = [sqrt_of |-> "hidden_size_per_attention_head", times |-> n]
                  /\ dpa.unfused_attention.softmax_scale = <<n>>
                  /\ \A f \in CallFactors : f[1].times = n /\ f[2] = <<n>>
            /\ ~dpa.apply_query_key_layer_scaling =>
                  /\ dpa.unfused_attention.norm_factor = [sqrt_of |-> "hidden_size_per_attention_head", times |-> 1]
                  /\ dpa.unfused_attention.softmax_scale = NoNum
                  /\ \A f \in CallFactors : f[1].times = 1 /\ f[2] = NoNum
            /\ dpa.flash_attention # NoObj =>
                  dpa.flash_attention.norm_factor = [sqrt_of |-> "hidden_size_per_attention_head", times |-> 1]

\* C20 witness: a dispatcher with scaling enabled and the layer number 2 ran
\* the reference path.
C20_Witness ==
    /\ Constructed(dpa)
    /\ dpa.apply_query_key_layer_scaling
    /\ ctor.cfg.layer_number = <<2>>
    /\ \E f \in CallFactors : f[1].times = 2 /\ f[2] = <<2>>


(***************************************************************************)
(* Properties of the checkpointed forward                                  *)
(***************************************************************************)
\* The call of the dispatcher that just ended, made again on the same
\* arguments with checkpoint_core_attention the other way round.
OtherWay ==
    DPAForward(dpa, call.q, call.k, call.v, call.mask,
               ~call.checkpoint_core_attention, NoRowPastEnd)

\* What the call of the dispatcher that just ended has passed to its variant.
CallPassed == IF call.variant = "flash" THEN <<call.q, call.k, call.v>> ELSE <<call.q, call.k, call.v, call.mask>>

\* C21: a forward call of the dispatcher with checkpoint_core_attention set
\* and the same call without it select the same variant, pass it the same
\* query, key and value, and the same mask on the reference path, and have the
\* same outcome; a checkpointed call hands checkpoint the selected variant
\* with these same arguments, the dispatcher's random-state tracker and its
\* process group, and a call that is not checkpointed hands it nothing.
C21_CheckpointedForwardEquivalent ==
    IsDPACall =>
        /\ OtherWay.variant = call.variant
        /\ OtherWay.passed = CallPassed
        /\ OtherWay.res = call.res
        /\ OtherWay.self = dpa
        /\ call.checkpointed = call.checkpoint_core_attention
        /\ call.checkpoint_core_attention =>
              /\ call.saved # NoObj
              /\ call.saved.function = (IF call.variant = "flash" THEN "flash_attention" ELSE "unfused_attention")
              /\ call.saved.args = CallPassed
              /\ call.saved.get_rng_state_tracker = "self.get_rng_state_tracker"
              /\ call.saved.tp_group = "self.tp_group"
        /\ ~call.checkpoint_core_attention => call.saved = NoObj

\* C21 witness: a checkpointed call with a mask returned from the reference
\* path, and one without a mask from the fast path.
C21_Witness ==
    /\ IsDPACall
    /\ call.checkpoint_core_attention
    /\ call.res.err = None
    /\ \/ call.variant = "unfused" /\ call.mask # NoMask
       \/ call.variant = "flash" /\ call.res.kernel


(***************************************************************************)
(* Properties of the bias-dropout-add selection                            *)
(***************************************************************************)
\* The bias-dropout-add function of a call in the given mode of a layer that
\* was constructed under the toggle value f.
FunctionUnder(f, mode) ==
    IF f # 0
    THEN IF mode THEN "bias_dropout_add_fused_train" ELSE "bias_dropout_add_fused_inference"
    ELSE "get_bias_dropout_add"

\* The steps of the call that went through a bias-dropout-add function.
FunctionSteps == {k \in AddSteps : fwd.steps[k].via # "drop_path"}

\* C22: the layer stores the choice between the fused and the generic
\* bias-dropout-add at construction, from NVTE_BIAS_DROPOUT_FUSION as it was
\* then; every sub-block of a forward call that uses bias-dropout-add uses
\* the function of that stored choice, in the variant of the training mode of
\* the call, whatever the toggle is when the call is made.
C22_FusionChosenAtConstruction ==
    /\ (IsLayer /\ BlockBuilt) =>
           block.obj.bias_dropout_fusion = (block.env.NVTE_BIAS_DROPOUT_FUSION # 0)
    /\ IsLayerCall =>
           \A k \in FunctionSteps :
               fwd.steps[k].via = FunctionUnder(block.env.NVTE_BIAS_DROPOUT_FUSION, fwd.training)

\* C22 witness: a decoder layer constructed with the toggle off was run in
\* evaluation mode after the toggle was switched on, and its three sub-blocks
\* went through bias-dropout-add.
C22_Witness ==
    /\ IsLayerCall
    /\ block.env.NVTE_BIAS_DROPOUT_FUSION = 0
    /\ fwd.environ.NVTE_BIAS_DROPOUT_FUSION = 1
    /\ ~fwd.training
    /\ Cardinality(FunctionSteps) = 3


(***************************************************************************)
(* Properties of the number of values the sub-blocks return                *)
(***************************************************************************)
IsAttentionCall == fwd.op = "MultiHeadAttention.forward" /\ fwd.err = None

\* The number of values the self attention of the layer returns on the
\* hidden states of the call, and the cross attention on what it was given.
SelfAttentionReturns ==
    MHAForward(block.obj.self_attention,
               HiddenStates(block.cfg.params_dtype, 0, 0, MaxLen, MaxCols),
               NoMask, NoObj, FALSE, NoObj, 0, NoRowPastEnd).n_outputs

InterAttentionReturns ==
    LET k == CHOOSE j \in 1..Len(fwd.steps) : fwd.steps[j].step = "inter_attention"
    IN  MHAForward(block.obj.inter_attention,
                   Tensor(block.cfg.params_dtype, TRUE, fwd.steps[k].input),
                   NoMask, EncoderOutput(block.cfg.params_dtype, MaxCols),
                   FALSE, NoObj, 0, NoRowPastEnd).n_outputs

\* C23: MultiHeadAttention.forward returns three values exactly when the
\* block has an input layernorm and return_layernorm_output is set, and two
\* otherwise; in a TransformerLayer of any layer type, output layernorm and
\* residual selection, the self attention, the cross attention and the MLP
\* each return as many values as forward unpacks from them, and no forward
\* call raises on unpacking.
C23_ReturnedValuesAreUnpacked ==
    /\ IsAttentionCall =>
           fwd.n_outputs = (IF block.obj.input_layernorm /\ block.obj.return_layernorm_output THEN 3 ELSE 2)
    /\ fwd.op = "TransformerLayer.forward" =>
           /\ fwd.err # "ValueError"
           /\ fwd.err = None =>
                 /\ SelfAttentionReturns = SelfAttentionUnpacks(block.obj)
                 /\ block.obj.layer_type = "decoder" =>
                        InterAttentionReturns = InterAttentionUnpacks(block.obj)
                 /\ LayerNormMLPOutputs(block.obj.layernorm_mlp) = MLPUnpacks(block.obj)

\* C23 witness: a decoder layer with an output layernorm and the residual
\* taken after the layernorm has returned: its self attention hands back two
\* values, its cross attention and its MLP three.
C23_Witness ==
    /\ IsLayerCall
    /\ block.obj.layer_type = "decoder"
    /\ block.obj.output_layernorm
    /\ block.obj.apply_residual_connection_post_layernorm
    /\ SelfAttentionReturns = 2
    /\ InterAttentionReturns = 3

\* C23, for the block on its own: a MultiHeadAttention without an input
\* layernorm that was asked for the layernorm output has returned two values.
C23_WitnessAttention ==
    /\ IsAttentionCall
    /\ ~block.obj.input_layernorm
    /\ block.obj.return_layernorm_output
    /\ fwd.n_outputs = 2


(***************************************************************************)
(* Properties of the cache of a block without a layer number               *)
(***************************************************************************)
\* C24 as stated: a MultiHeadAttention.forward call with a session of a
\* block that was constructed without a layer number leaves the session's
\* mapping of layers to buffers as it was, no entry added and no cell
\* written, and hands the attention dispatcher the newly projected key and
\* value alone.
C24_NoLayerNumberNoCache ==
    (IsMHACall /\ GivenLayerNumber = NoNum) =>
        /\ inference_params.key_value_memory_dict = kv.before.key_value_memory_dict
        /\ kv.attn.reached_attention =>
              /\ kv.attn.key_layer = Project("key", HiddenStates(layer.self_attention.params_dtype, kv.before.sequence_len_offset, kv.before.batch_size_offset, kv.sq, caller.batch))
              /\ kv.attn.value_layer = Project("value", HiddenStates(layer.self_attention.params_dtype, kv.before.sequence_len_offset, kv.before.batch_size_offset, kv.sq, caller.batch))


(***************************************************************************)
(* Properties of the fast variant behind the cache                         *)
(***************************************************************************)
\* C25 as stated: whenever the attention dispatcher of a block calls the fast
\* variant, the key and the value are as long as the query, so that the last
\* entry of the cumulative lengths built from the query, batch * s, is the
\* number of packed key rows; calls through the cache, whose key and value
\* are the prefix up to sequence_end, included.
C25_FastVariantEqualLengths ==
    (IsMHACall /\ kv.attn.reached_attention /\ kv.attn.variant = "flash") =>
        /\ Rows(kv.attn.key_layer) = Rows(kv.attn.query_layer)
        /\ Rows(kv.attn.value_layer) = Rows(kv.attn.query_layer)
        /\ CuSeqlens(Cols(kv.attn.query_layer), Rows(kv.attn.query_layer))[Cols(kv.attn.query_layer)]
              = Len(Packed(kv.attn.key_layer))


(***************************************************************************)
(* The frame of a call with a session                                      *)
(***************************************************************************)
\* The key of a layer other than the calling one, and buffers of one row and
\* one column that such a layer has written.
OtherLayerKey == CHOOSE x \in {LayerNumberKey(<<n>>) : n \in 1..(MaxLayer + 2)} : x # LayerKey

OtherEntry ==
    [id |-> 0,
     key_memory |-> [AllocateMemory(layer.self_attention, 1, 1) EXCEPT !.data = <<<<Projected("key_memory", 0, 0)>>>>],
     value_memory |-> [AllocateMemory(layer.self_attention, 1, 1) EXCEPT !.data = <<<<Projected("value_memory", 0, 0)>>>>]]

\* The session the call began with, had the other layer used it before, and
\* the same call made on it.
SharedBefore ==
    [kv.before EXCEPT !.key_value_memory_dict =
        [x \in DOMAIN @ \cup {OtherLayerKey} |-> IF x = OtherLayerKey THEN OtherEntry ELSE @[x]]]

SharedCall ==
    MHAForward(layer.self_attention,
               HiddenStates(layer.self_attention.params_dtype,
                            kv.before.sequence_len_offset, kv.before.batch_size_offset,
                            kv.sq, caller.batch),
               kv.attention_mask, NoObj, FALSE, SharedBefore, 0, NoRowPastEnd)

InWrittenSlice(r, c) ==
    /\ kv.before.sequence_len_offset < r /\ r <= kv.before.sequence_len_offset + kv.sq
    /\ kv.before.batch_size_offset < c /\ c <= kv.before.batch_size_offset + caller.batch

\* C26: a MultiHeadAttention.forward call with a session, whether it returns
\* or raises, leaves sequence_len_offset, batch_size_offset, max_sequence_len
\* and max_batch_size as they were; the mapping keeps every entry it had and
\* gains at most the entry of the calling layer; the buffers the layer had
\* keep their identity and shape; every cell outside rows
\* sequence_len_offset+1 .. sequence_len_offset+new_len and columns
\* batch_size_offset+1 .. batch_size_offset+batch is as it was; and in a
\* session that holds the buffers of another layer, those are as they were.
C26_CachedCallFrame ==
    IsMHACall =>
        LET old == kv.before.key_value_memory_dict
            new == inference_params.key_value_memory_dict
            shared == SharedCall.session
        IN  /\ inference_params.sequence_len_offset = kv.before.sequence_len_offset
            /\ inference_params.batch_size_offset = kv.before.batch_size_offset
            /\ inference_params.max_sequence_len = kv.before.max_sequence_len
            /\ inference_params.max_batch_size = kv.before.max_batch_size
            /\ DOMAIN old \subseteq DOMAIN new
            /\ DOMAIN new \subseteq DOMAIN old \cup {LayerKey}
            /\ \A x \in DOMAIN old \ {LayerKey} : new[x] = old[x]
            /\ LayerKey \in DOMAIN old =>
                  /\ new[LayerKey].id = old[LayerKey].id
                  /\ new[LayerKey].key_memory.shape = old[LayerKey].key_memory.shape
                  /\ new[LayerKey].value_memory.shape = old[LayerKey].value_memory.shape
            /\ LayerKey \in DOMAIN new =>
                  \A which \in {"key_memory", "value_memory"} :
                  \A r \in 1..BufferRows, c \in 1..BufferCols :
                     ~InWrittenSlice(r, c) => Entry[which].data[r][c] = OldCell(which, r, c)
            /\ OtherLayerKey \in DOMAIN shared.key_value_memory_dict
            /\ shared.key_value_memory_dict[OtherLayerKey] = OtherEntry
            /\ DOMAIN shared.key_value_memory_dict = DOMAIN new \cup {OtherLayerKey}
            /\ [shared EXCEPT !.key_value_memory_dict = << >>] = [kv.before EXCEPT !.key_value_memory_dict = << >>]
            /\ LayerKey \in DOMAIN new =>
                  /\ shared.key_value_memory_dict[LayerKey].key_memory = Entry.key_memory
                  /\ shared.key_value_memory_dict[LayerKey].value_memory = Entry.value_memory

\* C26 witness: a call that succeeded at a later position and a later column
\* on buffers the layer already had has written its slice and left a key an
\* earlier call wrote in the rows before it.
C26_Witness ==
    /\ IsMHACall
    /\ kv.err = None
    /\ kv.before.sequence_len_offset > 0
    /\ kv.before.batch_size_offset > 0
    /\ LayerKey \in DOMAIN kv.before.key_value_memory_dict
    /\ Entry.key_memory.data[kv.before.sequence_len_offset + 1][kv.before.batch_size_offset + 1]
          = Projected("key_memory", kv.before.sequence_len_offset + 1, kv.before.batch_size_offset + 1)
    /\ OldCell("key_memory", 1, kv.before.batch_size_offset + 1) # Uninit
    /\ Entry.key_memory.data[1][kv.before.batch_size_offset + 1]
          = OldCell("key_memory", 1, kv.before.batch_size_offset + 1)

\* C26, for a first use: the call has added the buffers of the layer to a
\* mapping that did not have them.
C26_WitnessFirstUse ==
    /\ IsMHACall
    /\ LayerKey \notin DOMAIN kv.before.key_value_memory_dict
    /\ LayerKey \in DOMAIN inference_params.key_value_memory_dict
    /\ SharedCall.session.key_value_memory_dict[OtherLayerKey] = OtherEntry


=============================================================================
